---- MODULE Spec2Model ----
(***************************************************************************)
(* Bot-3-em-1: the quota-bounded data-access layer (ApiFootballClient,     *)
(* src/utils/api_client.py) and the notification ledgers of the three      *)
(* detectors (src/modules/*.py), as state machines.                        *)
(*                                                                         *)
(* api_client.py reads Config.MAX_API_REQUESTS and Config.API_REQUEST_DELAY*)
(* which src/config.py does not define (it defines API_DAILY_LIMIT, which  *)
(* main.py hands to the client).  The model takes MAX_API_REQUESTS to be   *)
(* the configured request limit, scaled down, and the delay to be a sleep. *)
(***************************************************************************)
EXTENDS Integers, Sequences, FiniteSets, TLC

\* ------------------------------------------------------------------------
\* Bounds and program constants
\* ------------------------------------------------------------------------

\* Config.MAX_API_REQUESTS (the request limit), scaled down from 2000: the
\* smallest limit for which 95% of it is a whole number below the limit.
MAX_API_REQUESTS == 20

\* Config.API_BLOCK_THRESHOLD = 0.95, as a percentage.
API_BLOCK_THRESHOLD_PCT == 95

\* Facade reads started in one behaviour of the time-aware specification.
MaxCalls == 3

\* for attempt in range(3)
MaxAttempts == 3

\* One accounting period (a day), in seconds.
PeriodSeconds == 24 * 3600

\* The instants at which the clock is observed: they put a read exactly at,
\* one second before, and after each TTL used, and past the period boundary.
Instants == {0, 299, 300, 3599, 3600, PeriodSeconds}

\* Cache keys the facade builds, and the category each is stored under.
Keys == {"fixtures:d:all:NS", "recent_matches:t:1"}

\* The cache keys of the other facade operations: the season average of a
\* team, the half-time batch and the league aggregate.
TeamAvgKey == "team_avg:t:l:s"
BatchKey == "recent_matches:t:4"
HtKey == "team_ht_stats:t:4"
LeagueKey == "league_stats:l:s"

CacheType(key) ==
    CASE key = "fixtures:d:all:NS" -> "fixtures"
      [] key = LeagueKey           -> "league_stats"
      [] OTHER                     -> "team_stats"

\* The facade operation that builds a key and hands it to _make_request.
KeyOp(key) ==
    CASE key = "fixtures:d:all:NS" -> "get_fixtures_by_date"
      [] key = TeamAvgKey          -> "get_team_goals_average"
      [] OTHER                     -> "get_team_recent_matches"

\* self.cache_durations
cache_durations(cache_type) ==
    CASE cache_type = "fixtures"     -> 300
      [] cache_type = "team_stats"   -> 3600
      [] cache_type = "league_stats" -> 7200
      [] cache_type = "team_info"    -> 86400
      [] OTHER                       -> 300

\* The "response" lists the provider can return; Empty is [].
Empty == << >>
Payloads == {Empty, <<"m1">>}

\* What one requests.get can end in.  "ok" carries a payload; "bad_json" is
\* a 2xx whose body does not parse; "http_error" is a non-2xx other than 429.
Responses == {"ok", "http_429", "http_error", "bad_json"}
NoResponses == {"timeout", "conn_error"}
Outcomes == Responses \cup NoResponses

VARIABLES
    request_count,   \* self.request_count
    cache,           \* self.cache: key -> [data, ts]
    now,             \* time.time()
    pc,              \* "idle" | "loop": position of the one blocking call
    attempt,         \* loop variable of for attempt in range(3)
    cur_key,         \* cache_key of the call in progress
    calls,           \* reads started so far
    call_http,       \* requests.get invocations of the current/last call
    last_kind,       \* how the last call ended: none|hit|denied|ok|exhausted|raised
    last_value,      \* what the last call returned
    pre_count,       \* request_count at the admission check of the last call
    pre_entry,       \* << >> or <<entry>>: cache entry for the key when the last call began
    check_at,        \* time.time() when the last call began
    gate_at,         \* time.time() at the latest admission check (0: construction)
    crossed,         \* the last call ran the first admission check after a period boundary
    op,              \* the facade operation the last call was made through
    \* --- detectors (src/modules) ---
    today,           \* the current date (Lisbon), as a day number
    notified,        \* per detector: notified_fixtures / notified_matches / notified_today
    sent,            \* alerts delivered per (detector, date, fixture) (history)
    rpc,             \* per task: idle | loop | sending | summary
    rdet,            \* per task: the detector whose execute() it runs
    rdate,           \* per task: today_str_lisbon / daily_key taken at the start of the run
    ridx,            \* per task: position in all_matches
    runs,            \* executions started so far
    running,         \* the task the event loop is executing, or "none"
    last_skip,       \* the latest fixture step took the "already notified" branch
    \* --- one evaluation of a function or of a loop body on given data ---
    fn,              \* the function evaluated last ("none" before the first)
    arg,             \* the data it was given
    out              \* what it returned or did

apiVars == <<request_count, cache, now, pc, attempt, cur_key, calls,
             call_http, last_kind, last_value, pre_count, pre_entry, check_at,
             gate_at, crossed, op>>

evalVars == <<fn, arg, out>>

detVars == <<today, notified, sent, rpc, rdet, rdate, ridx, runs, running, last_skip>>

vars == <<apiVars, detVars, evalVars>>

\* ------------------------------------------------------------------------
\* ApiFootballClient
\* ------------------------------------------------------------------------

\* Variant: an entry exactly ttl seconds old still counts as valid.
Mut_IsCacheValid(timestamp, cache_type, t) ==
    (t - timestamp) <= cache_durations(cache_type)

\* _is_cache_valid: (time.time() - timestamp) < duration
IsCacheValid(timestamp, cache_type, t) ==
    (t - timestamp) < cache_durations(cache_type)

\* Cache hit test of _make_request (lines 45-47).
CacheHit(key, t) ==
    /\ key \in DOMAIN cache
    /\ IsCacheValid(cache[key].ts, CacheType(key), t)

\* The admission check of _make_request (line 52): true = refused.
LimitReached(count) == count >= MAX_API_REQUESTS

\* self.cache[cache_key] = (data, time.time())
CachePut(c, key, data, t) ==
    [k \in DOMAIN c \cup {key} |-> IF k = key THEN [data |-> data, ts |-> t] ELSE c[k]]

\* The calendar period an instant falls in.
Period(t) == t \div PeriodSeconds

ApiInit ==
    /\ request_count = 0
    /\ cache = [k \in {} |-> [data |-> Empty, ts |-> 0]]
    /\ now = 0
    /\ pc = "idle"
    /\ attempt = 0
    /\ cur_key = "fixtures:d:all:NS"
    /\ calls = 0
    /\ call_http = 0
    /\ last_kind = "none"
    /\ last_value = Empty
    /\ pre_count = 0
    /\ pre_entry = << >>
    /\ check_at = 0
    /\ gate_at = 0
    /\ crossed = FALSE
    /\ op = "none"

\* The clock moves on (between calls, and inside one while it sleeps or waits).
Tick ==
    /\ \E t \in Instants : t > now /\ now' = t
    /\ UNCHANGED <<request_count, cache, pc, attempt, cur_key, calls,
                   call_http, last_kind, last_value, pre_count, pre_entry, check_at,
                   gate_at, crossed, op>>
    /\ UNCHANGED <<detVars, evalVars>>

\* Variant: a cache hit is counted as a request.
Mut_ServeFromCache(key) ==
    /\ last_kind' = "hit"
    /\ last_value' = cache[key].data
    /\ pc' = "idle"
    /\ crossed' = FALSE
    /\ request_count' = request_count + 1
    /\ UNCHANGED <<cache, gate_at>>

\* Lines 47-49: the cached data is returned.
ServeFromCache(key) ==
    /\ last_kind' = "hit"
    /\ last_value' = cache[key].data
    /\ pc' = "idle"
    /\ crossed' = FALSE
    /\ UNCHANGED <<request_count, cache, gate_at>>

\* Variant: a refused read is counted as a request.
Mut_RefuseRequest ==
    /\ last_kind' = "denied"
    /\ last_value' = Empty
    /\ pc' = "idle"
    /\ crossed' = (Period(now) > Period(gate_at))
    /\ gate_at' = now
    /\ request_count' = request_count + 1
    /\ UNCHANGED cache

\* Lines 52-54: the limit is reached, [] is returned.
RefuseRequest ==
    /\ last_kind' = "denied"
    /\ last_value' = Empty
    /\ pc' = "idle"
    /\ crossed' = (Period(now) > Period(gate_at))
    /\ gate_at' = now
    /\ UNCHANGED <<request_count, cache>>

\* Lines 56-61: the request is admitted and the retry loop is entered.
EnterLoop ==
    /\ last_kind' = "none"
    /\ last_value' = Empty
    /\ pc' = "loop"
    /\ crossed' = (Period(now) > Period(gate_at))
    /\ gate_at' = now
    /\ UNCHANGED <<request_count, cache>>

\* _make_request up to the retry loop: cache check, then admission check.
MakeRequestEnter(key) ==
    /\ pc = "idle"
    /\ cur_key' = key
    /\ check_at' = now
    /\ pre_count' = request_count
    /\ pre_entry' = IF key \in DOMAIN cache THEN <<cache[key]>> ELSE << >>
    /\ call_http' = 0
    /\ attempt' = 0
    /\ IF CacheHit(key, now)
         THEN ServeFromCache(key)
         ELSE IF LimitReached(request_count)
                THEN RefuseRequest
                ELSE EnterLoop
    /\ UNCHANGED now
    /\ UNCHANGED <<detVars, evalVars>>

\* Variant: the exception of the last attempt is re-raised to the caller.
Mut_AfterException ==
    IF attempt + 1 < MaxAttempts
      THEN /\ attempt' = attempt + 1
           /\ UNCHANGED <<pc, last_kind, last_value>>
      ELSE /\ attempt' = attempt + 1
           /\ pc' = "idle"
           /\ last_kind' = "raised"
           /\ last_value' = Empty

\* How an attempt that raised inside the try block ends (lines 90-93): the
\* exception is swallowed; after the last attempt the loop ends and [] is returned.
AfterException ==
    IF attempt + 1 < MaxAttempts
      THEN /\ attempt' = attempt + 1
           /\ UNCHANGED <<pc, last_kind, last_value>>
      ELSE /\ attempt' = attempt + 1
           /\ pc' = "idle"
           /\ last_kind' = "exhausted"
           /\ last_value' = Empty

\* Variant: a 429 is retried without using up an attempt.
Mut_After429 ==
    /\ UNCHANGED <<attempt, pc, last_kind, last_value>>

\* HTTP 429 (lines 75-79): wait and continue with the next attempt.
After429 ==
    IF attempt + 1 < MaxAttempts
      THEN /\ attempt' = attempt + 1
           /\ UNCHANGED <<pc, last_kind, last_value>>
      ELSE /\ attempt' = attempt + 1
           /\ pc' = "idle"
           /\ last_kind' = "exhausted"
           /\ last_value' = Empty

\* request_count after one requests.get: incremented on line 73, which runs
\* only when requests.get returned a response (it raises on timeout and
\* connection error, skipping the line).
CountAfter(outcome, count) ==
    IF outcome \in Responses THEN count + 1 ELSE count

\* Variant: the pacing delay starts with the third request.
Mut_PacingDelay(count) == count > 1

\* Line 62: the pacing delay is slept when a response has been counted before.
PacingDelay(count) == count > 0

\* Variant: the wait after a 429 does not grow with the attempt.
Mut_BackoffAfter(outcome, k) ==
    CASE outcome = "ok" -> 0
      [] outcome = "http_429" -> 10
      [] OTHER -> IF k < 2 THEN (k + 1) * 2 ELSE 0

\* Seconds slept after attempt k, by its outcome: (k + 1) * 10 after a 429
\* (lines 76-78), (k + 1) * 2 in the except block when k < 2 (lines 92-93).
BackoffAfter(outcome, k) ==
    CASE outcome = "ok" -> 0
      [] outcome = "http_429" -> (k + 1) * 10
      [] OTHER -> IF k < 2 THEN (k + 1) * 2 ELSE 0

\* Variant: the empty result of an attempt that raised is stored in the cache.
Mut_Iteration(outcome, data) ==
    /\ pc = "loop"
    /\ call_http' = call_http + 1
    /\ request_count' = CountAfter(outcome, request_count)
    /\ CASE outcome = "ok" ->
              /\ cache' = CachePut(cache, cur_key, data, now)
              /\ pc' = "idle"
              /\ last_kind' = "ok"
              /\ last_value' = data
              /\ UNCHANGED attempt
         [] outcome = "http_429" ->
              /\ After429
              /\ UNCHANGED cache
         [] OTHER ->
              /\ AfterException
              /\ cache' = CachePut(cache, cur_key, Empty, now)
    /\ UNCHANGED <<now, cur_key, calls, pre_count, pre_entry, check_at, gate_at, crossed, op>>
    /\ UNCHANGED detVars

\* One iteration of the retry loop (lines 61-93), as far as the client's own
\* state goes.
Iteration(outcome, data) ==
    /\ pc = "loop"
    /\ call_http' = call_http + 1
    /\ request_count' = CountAfter(outcome, request_count)
    /\ CASE outcome = "ok" ->
              /\ cache' = CachePut(cache, cur_key, data, now)
              /\ pc' = "idle"
              /\ last_kind' = "ok"
              /\ last_value' = data
              /\ UNCHANGED attempt
         [] outcome = "http_429" ->
              /\ After429
              /\ UNCHANGED cache
         [] OTHER ->
              /\ AfterException
              /\ UNCHANGED cache
    /\ UNCHANGED <<now, cur_key, calls, pre_count, pre_entry, check_at, gate_at, crossed, op>>
    /\ UNCHANGED detVars

\* One iteration of the retry loop (lines 61-93).
Attempt(outcome, data) ==
    /\ Iteration(outcome, data)
    /\ UNCHANGED evalVars

\* One iteration of the retry loop with its sleeps noted: whether the pacing
\* delay was slept before requests.get, and the seconds slept after it; also
\* whether it was the first attempt since construction and whether a read had
\* succeeded before it.
TimedAttempt(outcome, data) ==
    /\ Iteration(outcome, data)
    /\ fn' = "_make_request"
    /\ out' = [attempt       |-> attempt,
               outcome       |-> outcome,
               pacing        |-> PacingDelay(request_count),
               backoff       |-> BackoffAfter(outcome, attempt),
               first         |-> fn = "none",
               after_success |-> DOMAIN cache # {}]
    /\ UNCHANGED arg

\* ------------------------------------------------------------------------
\* ApiFootballClient: the operations that test the cache or the limit themselves
\* ------------------------------------------------------------------------

\* len(fixtures) < 30: the smallest sample get_league_real_stats aggregates.
MIN_LEAGUE_FIXTURES == 30

\* self.request_count >= Config.MAX_API_REQUESTS - 10
LEAGUE_RESERVE == 10

\* What the league's /fixtures query can return besides Payloads: one
\* fixture short of the smallest sample, and exactly the smallest sample.
LeaguePayloads ==
    {[i \in 1..(MIN_LEAGUE_FIXTURES - 1) |-> "m1"], [i \in 1..MIN_LEAGUE_FIXTURES |-> "m1"]}

\* What a call notes on entry, whichever branch it then takes.
Record(key) ==
    /\ pc = "idle"
    /\ cur_key' = key
    /\ check_at' = now
    /\ pre_count' = request_count
    /\ pre_entry' = IF key \in DOMAIN cache THEN <<cache[key]>> ELSE << >>
    /\ call_http' = 0
    /\ attempt' = 0
    /\ UNCHANGED <<now, calls>>
    /\ UNCHANGED <<detVars, evalVars>>

\* get_fixtures_by_date, get_team_recent_matches and the request of
\* get_team_goals_average: the key is built and handed to _make_request.
FacadeDirect ==
    \E key \in Keys \cup {TeamAvgKey} :
        /\ MakeRequestEnter(key)
        /\ op' = KeyOp(key)
        /\ UNCHANGED calls

\* get_teams_stats_batch, one team of the loop (lines 235-241): the limit is
\* tested first, and only below it get_team_recent_matches is called.
GetTeamsStatsBatch ==
    /\ op' = "get_teams_stats_batch"
    /\ IF LimitReached(request_count)
         THEN Record(BatchKey) /\ RefuseRequest
         ELSE MakeRequestEnter(BatchKey) /\ UNCHANGED calls

\* get_teams_ht_stats_batch, one team of the loop (lines 276-290): the cache,
\* then the limit, then _make_request.
GetTeamsHtStatsBatch ==
    /\ op' = "get_teams_ht_stats_batch"
    /\ IF CacheHit(HtKey, now)
         THEN Record(HtKey) /\ ServeFromCache(HtKey)
         ELSE IF LimitReached(request_count)
                THEN Record(HtKey) /\ RefuseRequest
                ELSE MakeRequestEnter(HtKey) /\ UNCHANGED calls

\* Line 320-321: the feature is switched off, None is returned.
LeagueDisabled ==
    /\ last_kind' = "disabled"
    /\ last_value' = Empty
    /\ pc' = "idle"
    /\ crossed' = FALSE
    /\ UNCHANGED <<request_count, cache, gate_at>>

\* get_league_real_stats up to its _make_request (lines 320-344): the
\* switch, the cache, the limit less a reserve of 10.
GetLeagueRealStats(enabled) ==
    /\ op' = "get_league_real_stats"
    /\ IF ~enabled
         THEN Record(LeagueKey) /\ LeagueDisabled
         ELSE IF CacheHit(LeagueKey, now)
                THEN Record(LeagueKey) /\ ServeFromCache(LeagueKey)
                ELSE IF request_count >= MAX_API_REQUESTS - LEAGUE_RESERVE
                       THEN Record(LeagueKey) /\ RefuseRequest
                       ELSE MakeRequestEnter(LeagueKey) /\ UNCHANGED calls

\* Lines 349-390, as far as the size of the sample goes.
LeagueAggregate(fixtures) ==
    [total_games |-> Len(fixtures), days_analyzed |-> 120, is_real |-> TRUE]

\* What get_league_real_stats returns once its call has ended: on a cache
\* hit cached[0] (line 327), which is what _make_request stored under the
\* key: the provider's fixture list; None when switched off or refused; after
\* _make_request None for fewer than 30 fixtures, else the aggregate.
league_result ==
    CASE last_kind = "hit" ->
           [kind |-> "list", fixtures |-> last_value, total_games |-> 0]
      [] last_kind \in {"disabled", "denied"} ->
           [kind |-> "None", fixtures |-> Empty, total_games |-> 0]
      [] OTHER ->
           IF last_value = Empty \/ Len(last_value) < MIN_LEAGUE_FIXTURES
             THEN [kind |-> "None", fixtures |-> Empty, total_games |-> 0]
             ELSE [kind |-> "aggregate", fixtures |-> Empty,
                   total_games |-> LeagueAggregate(last_value).total_games]

\* ------------------------------------------------------------------------
\* ApiFootballClient.get_team_goals_average
\* ------------------------------------------------------------------------

\* Largest goals total and games total of a /teams/statistics response.
MaxGoals == 3
MaxGames == 3

\* A leaf of the response that is not a number: the key (or a section above
\* it) is missing, its value is null, it is a blank string, it is text that
\* float() rejects.
Absent == 0 - 1
Null == 0 - 2
Blank == 0 - 3
Unparseable == 0 - 4

\* goals.for.average.total as the provider can send it: a decimal string,
\* here in thousandths ("0", "1.5", "2.3", "2.346"), or one of the above.
AverageLeaves == {Absent, Null, Blank, Unparseable, 0, 1500, 2300, 2346}

\* What _make_request hands back for /teams/statistics: nothing, an empty
\* list, the statistics object, a list holding it, a list holding a non-dict.
Shapes == {"nothing", "empty_list", "object", "list_of_object", "list_of_other"}

StatsResponses ==
    [shape : Shapes,
     average : AverageLeaves,
     goals : {Absent, Null} \cup (0..MaxGoals),
     games : {Absent, Null} \cup (0..MaxGames)]

\* Results of a step of the function: a float (in hundredths), None, an
\* exception, or nothing yet (the next method is tried).
Value(v) == [kind |-> "value", value |-> v]
None == [kind |-> "None", value |-> 0]
Raised == [kind |-> "raised", value |-> 0]
Fallthrough == [kind |-> "next", value |-> 0]

\* round(num / den, 2) in hundredths: to the nearest, ties to the even one.
Round2(num, den) ==
    LET q == (100 * num) \div den
        r == (100 * num) % den
    IN  IF 2 * r > den THEN q + 1
        ELSE IF 2 * r < den THEN q
        ELSE IF q % 2 = 0 THEN q ELSE q + 1

\* Variant: an exception of a method is passed on to the caller.
Mut_Except(result) == result

\* except Exception / except: of the three methods: the exception is logged
\* (or passed) and the function goes on to the next method.
Except(result) == IF result.kind = "raised" THEN Fallthrough ELSE result

\* Method 1 (lines 171-181): the provider's average, if float() takes it.
Method1(d) ==
    IF d.average \in {Absent, Null, Blank} THEN Fallthrough
    ELSE IF d.average = Unparseable THEN Raised
    ELSE Value(Round2(d.average, 1000))

\* total_section.get("total", 0), played_section.get("total", 0)
LeafOrZero(leaf) == IF leaf = Absent THEN 0 ELSE leaf

\* Variant: no games played gives None.
Mut_Method2(d) ==
    LET total_goals == LeafOrZero(d.goals)
        total_games == LeafOrZero(d.games)
    IN  IF total_games = Null THEN Raised
        ELSE IF total_games > 0
               THEN IF total_goals = Null THEN Raised
                    ELSE Value(Round2(total_goals, total_games))
               ELSE None

\* Method 2 (lines 187-204): goals / games; None > 0 and None / n raise.
Method2(d) ==
    LET total_goals == LeafOrZero(d.goals)
        total_games == LeafOrZero(d.games)
    IN  IF total_games = Null THEN Raised
        ELSE IF total_games > 0
               THEN IF total_goals = Null THEN Raised
                    ELSE Value(Round2(total_goals, total_games))
               ELSE Value(0)

\* Method 3 (lines 211-219): the same two leaves read by subscript.
Method3(d) ==
    LET total_goals == LeafOrZero(d.goals)
        total_games == LeafOrZero(d.games)
    IN  IF total_games = Null THEN Raised
        ELSE IF total_games > 0
               THEN IF total_goals = Null THEN Raised
                    ELSE Value(Round2(total_goals, total_games))
               ELSE Fallthrough

\* get_team_goals_average on the data _make_request returned.
get_team_goals_average(d) ==
    IF d.shape \in {"nothing", "empty_list", "list_of_other"} THEN None
    ELSE LET m1 == Except(Method1(d))
             m2 == Except(Method2(d))
             m3 == Except(Method3(d))
         IN  IF m1.kind # "next" THEN m1
             ELSE IF m2.kind # "next" THEN m2
             ELSE IF m3.kind # "next" THEN m3
             ELSE None

GoalsAverage ==
    /\ fn = "none"
    /\ fn' = "get_team_goals_average"
    /\ out' = get_team_goals_average(arg)
    /\ UNCHANGED arg
    /\ UNCHANGED <<apiVars, detVars>>

\* ------------------------------------------------------------------------
\* Detectors: JogosEliteModule, RegressaoMediaModule, CampeonatosPadraoModule
\* ------------------------------------------------------------------------

Detectors == {"elite", "regressao", "campeonatos"}

\* Tasks that can run a detector's execute(): a scheduled job (one job id,
\* max_instances=1) and a task created by POST /trigger/{module}.
Tasks == {"job", "trigger"}

\* Executions started in one behaviour.
MaxRuns == 3

\* Dates the process lives through.
MaxDays == 2

\* all_matches of a run: today's fixtures, in the provider's order.
Fixtures == {"f1", "f2"}
all_matches == <<"f1", "f2">>

\* The entry a detector keeps in its ledger for a fixture: the elite detector
\* stores fixture_id, the others f"<detector>_{date}_{fixture_id}".
notification_key(det, date, f) ==
    IF det = "elite" THEN <<0, f>> ELSE <<date, f>>

\* (detector, date, fixture): what one alert is about.
AlertKeys == Detectors \X (1..MaxDays) \X Fixtures

DetInit ==
    /\ today = 1
    /\ notified = [d \in Detectors |-> {}]
    /\ sent = [k \in AlertKeys |-> 0]
    /\ rpc = [t \in Tasks |-> "idle"]
    /\ rdet = [t \in Tasks |-> "elite"]
    /\ rdate = [t \in Tasks |-> 1]
    /\ ridx = [t \in Tasks |-> 1]
    /\ runs = 0
    /\ running = "none"
    /\ last_skip = FALSE

EvalInit ==
    /\ fn = "none"
    /\ arg = << >>
    /\ out = << >>

\* Midnight in Lisbon.
NextDay ==
    /\ today < MaxDays
    /\ today' = today + 1
    /\ UNCHANGED <<notified, sent, rpc, rdet, rdate, ridx, runs, running, last_skip>>
    /\ UNCHANGED <<apiVars, evalVars>>

\* execute() is entered by a task the event loop picks while no other task
\* is executing (the others are idle or suspended in an await): the date is
\* read and today's fixtures are fetched with blocking calls.
Execute(t, det) ==
    /\ rpc[t] = "idle"
    /\ running = "none"
    /\ running' = t
    /\ runs < MaxRuns
    /\ runs' = runs + 1
    /\ rpc' = [rpc EXCEPT ![t] = "loop"]
    /\ rdet' = [rdet EXCEPT ![t] = det]
    /\ rdate' = [rdate EXCEPT ![t] = today]
    /\ ridx' = [ridx EXCEPT ![t] = 1]
    /\ last_skip' = FALSE
    /\ UNCHANGED <<today, notified, sent>>
    /\ UNCHANGED <<apiVars, evalVars>>

\* The run's position after the fixture at ridx[t] is dealt with: the next
\* fixture, or after the last one the await of the summary message.
Advance(t) ==
    /\ ridx' = [ridx EXCEPT ![t] = ridx[t] + 1]
    /\ IF ridx[t] + 1 > Len(all_matches)
         THEN /\ rpc' = [rpc EXCEPT ![t] = "summary"]
              /\ running' = "none"
         ELSE /\ rpc' = [rpc EXCEPT ![t] = "loop"]
              /\ running' = t

\* Variant: the ledger is searched for the key of the wrong day.
Mut_AlreadyNotified(det, date, f) ==
    notification_key(det, date + 1, f) \in notified[det]

\* The ledger test of a detector for the fixture it is looking at.
AlreadyNotified(det, date, f) ==
    notification_key(det, date, f) \in notified[det]

\* One pass of "for match in all_matches" up to the await of send_message,
\* where the task is suspended and the event loop is free for another task:
\* elite tests the ledger first and then whether a team qualifies; regressao
\* and campeonatos test the criteria first and then the ledger.  `qualifies`
\* is what the provider's data makes of the fixture in this run.
ProcessFixture(t, qualifies) ==
    /\ rpc[t] = "loop"
    /\ running = t
    /\ LET f == all_matches[ridx[t]]
           dup == AlreadyNotified(rdet[t], rdate[t], f)
       IN  /\ last_skip' = (qualifies /\ dup)
           /\ IF qualifies /\ ~dup
                THEN /\ rpc' = [rpc EXCEPT ![t] = "sending"]
                     /\ running' = "none"
                     /\ UNCHANGED ridx
                ELSE Advance(t)
    /\ UNCHANGED <<today, notified, sent, rdet, rdate, runs>>
    /\ UNCHANGED <<apiVars, evalVars>>

\* Variant: the key is added to the ledger whatever send_message returned.
Mut_SendReturnsAlways(t, success) ==
    /\ rpc[t] = "sending"
    /\ running = "none"
    /\ LET f == all_matches[ridx[t]]
           k == <<rdet[t], rdate[t], f>>
       IN  /\ sent' = IF success THEN [sent EXCEPT ![k] = sent[k] + 1] ELSE sent
           /\ notified' = [notified EXCEPT ![rdet[t]] =
                             notified[rdet[t]] \cup {notification_key(rdet[t], rdate[t], f)}]
    /\ Advance(t)
    /\ last_skip' = FALSE
    /\ UNCHANGED <<today, rdet, rdate, runs>>
    /\ UNCHANGED <<apiVars, evalVars>>

\* Variant: the three detectors keep one ledger between them.
Mut_SendReturns(t, success) ==
    /\ rpc[t] = "sending"
    /\ running = "none"
    /\ LET f == all_matches[ridx[t]]
           k == <<rdet[t], rdate[t], f>>
       IN  IF success
             THEN /\ sent' = [sent EXCEPT ![k] = sent[k] + 1]
                  /\ notified' = [d \in Detectors |->
                                    notified[d] \cup {notification_key(rdet[t], rdate[t], f)}]
             ELSE UNCHANGED <<sent, notified>>
    /\ Advance(t)
    /\ last_skip' = FALSE
    /\ UNCHANGED <<today, rdet, rdate, runs>>
    /\ UNCHANGED <<apiVars, evalVars>>

\* send_message returns to the run: on success the key is added to the ledger.
SendReturns(t, success) ==
    /\ rpc[t] = "sending"
    /\ running = "none"
    /\ LET f == all_matches[ridx[t]]
           k == <<rdet[t], rdate[t], f>>
       IN  IF success
             THEN /\ sent' = [sent EXCEPT ![k] = sent[k] + 1]
                  /\ notified' = [notified EXCEPT ![rdet[t]] =
                                    notified[rdet[t]] \cup {notification_key(rdet[t], rdate[t], f)}]
             ELSE UNCHANGED <<sent, notified>>
    /\ Advance(t)
    /\ last_skip' = FALSE
    /\ UNCHANGED <<today, rdet, rdate, runs>>
    /\ UNCHANGED <<apiVars, evalVars>>

\* The summary message is sent and execute() returns.
Finish(t) ==
    /\ rpc[t] = "summary"
    /\ running = "none"
    /\ rpc' = [rpc EXCEPT ![t] = "idle"]
    /\ last_skip' = FALSE
    /\ UNCHANGED <<today, notified, sent, rdet, rdate, ridx, runs, running>>
    /\ UNCHANGED <<apiVars, evalVars>>

\* ------------------------------------------------------------------------
\* RegressaoMediaModule: the last match of a team and the body of the loop
\* ------------------------------------------------------------------------

\* Config.MAX_LAST_MATCH_AGE_DAYS
MAX_LAST_MATCH_AGE_DAYS == 10

\* fixture.status.short of a match: finished (FT, AET, PEN), not started
\* (NS, TBD), in play (1H, HT, 2H).
FinishedStatuses == {"FT", "AET", "PEN"}
Statuses == FinishedStatuses \cup {"NS", "1H"}

\* goals.home and goals.away of a match that has kicked off; both are null
\* before kick-off.
Scores == {<<0, 0>>, <<1, 0>>, <<0, 1>>, <<1, 1>>, <<2, 1>>, <<0, 2>>, <<2, 2>>}
NoScore == <<Null, Null>>

\* (now - match_date).days of a finished match: inside the limit, at it,
\* one past it; of a match in play: 0; of a match still to start: -1.
Ages == {MAX_LAST_MATCH_AGE_DAYS - 2, MAX_LAST_MATCH_AGE_DAYS, MAX_LAST_MATCH_AGE_DAYS + 1}
Upcoming == 0 - 1

Matches ==
    [status : FinishedStatuses, goals : Scores, days_ago : Ages]
      \cup [status : {"1H"}, goals : Scores, days_ago : {0}]
      \cup [status : {"NS"}, goals : {NoScore}, days_ago : {Upcoming}]

\* What get_team_recent_matches(team_id, 1) can hand back: [] or a list of
\* one match, of whatever status the provider put in it.
RecentMatches == {Empty} \cup {<<m>> : m \in Matches}

\* goals.get(side) if it is not None else 0
GoalsOrZero(g) == IF g = Null THEN 0 ELSE g

\* is_under_15_result: (home + away) < 2
is_under_15_result(match) ==
    GoalsOrZero(match.goals[1]) + GoalsOrZero(match.goals[2]) < 2

\* is_exact_0x0_result: home == 0 and away == 0
is_exact_0x0_result(match) ==
    GoalsOrZero(match.goals[1]) = 0 /\ GoalsOrZero(match.goals[2]) = 0

\* (False, None)
NotUnder(used) == [under |-> FALSE, is_0x0 |-> FALSE, used |-> used]

\* check_team_under_15 on what get_team_recent_matches returned: `under` and
\* `is_0x0` are the verdict and info['is_0x0']; `used` is the status of the
\* match taken as last_match ("none": there was no match).
check_team_under_15(recent_matches) ==
    IF recent_matches = Empty THEN NotUnder("none")
    ELSE LET last_match == recent_matches[1]
         IN  IF is_under_15_result(last_match)
                 /\ last_match.days_ago <= MAX_LAST_MATCH_AGE_DAYS
               THEN [under |-> TRUE, is_0x0 |-> is_exact_0x0_result(last_match),
                     used |-> last_match.status]
               ELSE NotUnder(last_match.status)

CheckTeam ==
    /\ fn = "none"
    /\ fn' = "check_team_under_15"
    /\ out' = check_team_under_15(arg)
    /\ UNCHANGED arg
    /\ UNCHANGED <<apiVars, detVars>>

InitCheckTeam ==
    /\ ApiInit /\ DetInit
    /\ fn = "none"
    /\ arg \in RecentMatches
    /\ out = NotUnder("none")

SpecCheckTeam == InitCheckTeam /\ [][CheckTeam]_vars

\* The last-match lists the loop body is run on: nothing, a finished match
\* (goalless, one goal, three goals; at the age limit, one day past it), a
\* match still to start.
BodyRecentMatches ==
    {r \in RecentMatches :
        \/ r = Empty
        \/ r[1].status = "NS"
        \/ /\ r[1].status = "FT"
           /\ r[1].goals \in {<<0, 0>>, <<1, 0>>, <<2, 1>>}
           /\ r[1].days_ago >= MAX_LAST_MATCH_AGE_DAYS}

\* One fixture of all_matches as the loop body sees it: its status, whether
\* it is played today in Lisbon, whether its league is in allowed_leagues,
\* whether each team is on the watchlist, each team's last-match list, and
\* whether its key is in notified_matches.
RegressaoFixtures ==
    [status : {"NS", "TBD", "FT"},
     is_today : BOOLEAN,
     league_info : BOOLEAN,
     home_watchlist : BOOLEAN,
     away_watchlist : BOOLEAN,
     home_recent : BodyRecentMatches,
     away_recent : BodyRecentMatches,
     notified : BOOLEAN]

\* Variant: a team on the watchlist is enough for an alert.
Mut_MeetsCriteria(home_under, away_under, home_watchlist, away_watchlist) ==
    home_under \/ away_under \/ home_watchlist \/ away_watchlist

\* Line 293: if home_under or away_under
MeetsCriteria(home_under, away_under, home_watchlist, away_watchlist) ==
    home_under \/ away_under

\* len(confidence_factors) after lines 303-325: one entry per team on the
\* watchlist and one per team whose info['is_0x0'] is set.
confidence_factors(f, home, away) ==
    (IF f.home_watchlist THEN 1 ELSE 0) + (IF f.away_watchlist THEN 1 ELSE 0)
      + (IF home.under /\ home.is_0x0 THEN 1 ELSE 0)
      + (IF away.under /\ away.is_0x0 THEN 1 ELSE 0)

\* priority after lines 298-325.
priority(home, away) ==
    IF (home.under /\ home.is_0x0) \/ (away.under /\ away.is_0x0)
      THEN "MAXIMA" ELSE "NORMAL"

\* Lines 328-336.
confidence(factors, prio) ==
    IF factors >= 3 THEN "ALTISSIMA"
    ELSE IF prio = "MAXIMA" \/ factors >= 2 THEN "ALTA"
    ELSE "MEDIA"

\* What the body did with a fixture it did not alert on.
NoAlert(analysed, home, away) ==
    [analysed |-> analysed, alert |-> FALSE, home_under |-> home.under,
     away_under |-> away.under, confidence |-> "none"]

\* The body of "for match in all_matches" (lines 252-400) on one fixture:
\* `analysed` is games_analyzed += 1, `alert` is send_message being called.
RegressaoBody(f) ==
    IF f.status \notin {"NS", "TBD"} \/ ~f.is_today
         \/ ~(f.league_info \/ f.home_watchlist \/ f.away_watchlist)
      THEN NoAlert(FALSE, NotUnder("none"), NotUnder("none"))
      ELSE LET home == check_team_under_15(f.home_recent)
               away == check_team_under_15(f.away_recent)
           IN  IF MeetsCriteria(home.under, away.under, f.home_watchlist, f.away_watchlist)
                   /\ ~f.notified
                 THEN [analysed |-> TRUE, alert |-> TRUE, home_under |-> home.under,
                       away_under |-> away.under,
                       confidence |-> confidence(confidence_factors(f, home, away),
                                                 priority(home, away))]
                 ELSE NoAlert(TRUE, home, away)

RegressaoFixture ==
    /\ fn = "none"
    /\ fn' = "regressao"
    /\ out' = RegressaoBody(arg)
    /\ UNCHANGED arg
    /\ UNCHANGED <<apiVars, detVars>>

InitRegressao ==
    /\ ApiInit /\ DetInit
    /\ fn = "none"
    /\ arg \in RegressaoFixtures
    /\ out = NoAlert(FALSE, NotUnder("none"), NotUnder("none"))

SpecRegressao == InitRegressao /\ [][RegressaoFixture]_vars

\* ------------------------------------------------------------------------
\* JogosEliteModule: the body of the loop
\* ------------------------------------------------------------------------

\* Config.ELITE_GOALS_THRESHOLD = 2.3, in hundredths.
ELITE_GOALS_THRESHOLD == 230

\* What get_team_goals_average can return for a team: None, or an average
\* (in hundredths) below, just below, at and above the threshold.
Averages ==
    {None} \cup {Value(v) : v \in {0, ELITE_GOALS_THRESHOLD - 1, ELITE_GOALS_THRESHOLD,
                                   ELITE_GOALS_THRESHOLD + 1}}

\* One fixture as the loop body sees it: whether each team's normalized
\* name is in elite_teams_normalized, the average the client returns for
\* each team, and whether fixture_id is in notified_fixtures.
EliteFixtures ==
    [home_elite : BOOLEAN, away_elite : BOOLEAN,
     home_avg : Averages, away_avg : Averages,
     notified : BOOLEAN]

\* Variant: an average equal to the threshold does not qualify.
Mut_TeamQualifies(elite, avg) ==
    elite /\ avg.kind = "value" /\ avg.value > ELITE_GOALS_THRESHOLD

\* Lines 109-119 (home) and 123-133 (away): the team is looked up only if
\* its name is on the list, and qualifies if
\* avg is not None and avg >= Config.ELITE_GOALS_THRESHOLD.
TeamQualifies(elite, avg) ==
    elite /\ avg.kind = "value" /\ avg.value >= ELITE_GOALS_THRESHOLD

\* The body of "for match in all_matches" (lines 92-200) on one fixture:
\* `requests` is api_requests_for_stats, `alert` is send_message being called.
EliteBody(f) ==
    IF f.notified
      THEN [home_qualifies |-> FALSE, away_qualifies |-> FALSE, requests |-> 0,
            alert |-> FALSE]
      ELSE LET home == TeamQualifies(f.home_elite, f.home_avg)
               away == TeamQualifies(f.away_elite, f.away_avg)
           IN  [home_qualifies |-> home, away_qualifies |-> away,
                requests |-> (IF f.home_elite THEN 1 ELSE 0) + (IF f.away_elite THEN 1 ELSE 0),
                alert |-> home \/ away]

EliteFixture ==
    /\ fn = "none"
    /\ fn' = "elite"
    /\ out' = EliteBody(arg)
    /\ UNCHANGED arg
    /\ UNCHANGED <<apiVars, detVars>>

InitElite ==
    /\ ApiInit /\ DetInit
    /\ fn = "none"
    /\ arg \in EliteFixtures
    /\ out = [home_qualifies |-> FALSE, away_qualifies |-> FALSE, requests |-> 0,
              alert |-> FALSE]

SpecElite == InitElite /\ [][EliteFixture]_vars

\* ------------------------------------------------------------------------
\* CampeonatosPadraoModule: the body of the loop
\* ------------------------------------------------------------------------

\* get_team_recent_matches(team_id, 5): the matches a form is computed from.
FORM_WINDOW == 5

\* What analyze_team_form returns, reduced to the counts its percentages
\* are computed from; a team with no finished match gets None (NoForm).
NoForm == [games_played |-> 0, over_25 |-> 0, btts |-> 0, wins |-> 0, draws |-> 0]

FormSummaries ==
    {NoForm} \cup
    {f \in [games_played : {2, FORM_WINDOW}, over_25 : 0..4, btts : {1, 3},
            wins : {0, 1, 3, 5}, draws : {0, 1}] :
        /\ f.over_25 <= f.games_played
        /\ f.btts <= f.games_played
        /\ f.wins + f.draws <= f.games_played}

\* One fixture as the loop body sees it: the form of each team and whether
\* its key is in notified_today.
CampeonatosFixtures ==
    [home_form : FormSummaries, away_form : FormSummaries, notified : BOOLEAN]

\* ((k1 / g1) * 100 + (k2 / g2) * 100) / 2 >= t, without division.
MeanAtLeast(k1, g1, k2, g2, t) ==
    100 * (k1 * g2 + k2 * g1) >= 2 * t * g1 * g2

\* form_percentage = ((wins * 3 + draws) / (gp * 3)) * 100 against a bound.
FormAtLeast(f, t) == 100 * (f.wins * 3 + f.draws) >= t * f.games_played * 3
FormAtMost(f, t) == 100 * (f.wins * 3 + f.draws) <= t * f.games_played * 3

\* Variant: a mean over-2.5 rate of 60% is already worth 2.
Mut_OverPoints(home, away) ==
    IF MeanAtLeast(home.over_25, home.games_played, away.over_25, away.games_played, 60)
      THEN 2 ELSE 0

\* Lines 257-265.
OverPoints(home, away) ==
    IF MeanAtLeast(home.over_25, home.games_played, away.over_25, away.games_played, 70)
      THEN 2
    ELSE IF MeanAtLeast(home.over_25, home.games_played, away.over_25, away.games_played, 60)
      THEN 1
    ELSE 0

\* Lines 268-272.
BttsPoints(home, away) ==
    IF MeanAtLeast(home.btts, home.games_played, away.btts, away.games_played, 60)
      THEN 1 ELSE 0

\* Lines 275-283.
FormPoints(home, away) ==
    IF FormAtLeast(home, 70) /\ FormAtMost(away, 30) THEN 1
    ELSE IF FormAtLeast(away, 70) /\ FormAtMost(home, 30) THEN 1
    ELSE 0

\* confidence_score at line 286.
confidence_score(home, away) ==
    OverPoints(home, away) + BttsPoints(home, away) + FormPoints(home, away)

\* The body of "for match in all_matches" from the forms on (lines 244-317):
\* `scored` tells that both forms were there, `alert` that send_message was
\* called.  Each weight that is added also adds an insight, so
\* "confidence_score >= 2 and insights" is confidence_score >= 2.
CampeonatosBody(f) ==
    IF f.home_form = NoForm \/ f.away_form = NoForm
      THEN [scored |-> FALSE, score |-> 0, alert |-> FALSE]
      ELSE LET score == confidence_score(f.home_form, f.away_form)
           IN  [scored |-> TRUE, score |-> score,
                alert |-> score >= 2 /\ ~f.notified]

CampeonatosFixture ==
    /\ fn = "none"
    /\ fn' = "campeonatos"
    /\ out' = CampeonatosBody(arg)
    /\ UNCHANGED arg
    /\ UNCHANGED <<apiVars, detVars>>

InitCampeonatos ==
    /\ ApiInit /\ DetInit
    /\ fn = "none"
    /\ arg \in CampeonatosFixtures
    /\ out = [scored |-> FALSE, score |-> 0, alert |-> FALSE]

SpecCampeonatos == InitCampeonatos /\ [][CampeonatosFixture]_vars

\* ------------------------------------------------------------------------
\* CampeonatosPadraoModule.analyze_team_form
\* ------------------------------------------------------------------------

\* Matches get_team_recent_matches(team_id, 5) hands back, at most.
MaxFormMatches == 3

\* goals.home and goals.away of a finished match.
FormScores == {<<0, 0>>, <<1, 0>>, <<0, 1>>, <<1, 1>>, <<2, 1>>, <<0, 3>>}

\* One match of the team's recent list; at_home is
\* match.teams.home.id == team_id.
FormMatches ==
    [status : {"FT"}, goals : FormScores, at_home : BOOLEAN]
      \cup [status : {"AET"}, goals : {<<1, 1>>}, at_home : {TRUE}]
      \cup [status : {"NS"}, goals : {NoScore}, at_home : BOOLEAN]

RECURSIVE FormListsUpTo(_)
FormListsUpTo(n) ==
    IF n = 0 THEN {<< >>}
    ELSE LET shorter == FormListsUpTo(n - 1)
         IN  shorter \cup {Append(l, m) : l \in {k \in shorter : Len(k) = n - 1},
                                          m \in FormMatches}

FormLists == FormListsUpTo(MaxFormMatches)

\* Variant: every match of the list is counted, whatever its status.
Mut_IsCounted(match) == TRUE

\* Lines 98-99: a match whose status is not FT is passed over.
IsCounted(match) == match.status = "FT"

\* stats before the loop (lines 90-95).
ZeroStats ==
    [wins |-> 0, draws |-> 0, losses |-> 0, goals_for |-> 0, goals_against |-> 0,
     over_25 |-> 0, btts |-> 0, clean_sheets |-> 0, games_played |-> 0]

\* The loop body for one counted match (lines 101-127).
AddMatch(stats, match) ==
    LET home_goals == GoalsOrZero(match.goals[1])
        away_goals == GoalsOrZero(match.goals[2])
        total_goals == home_goals + away_goals
        team_goals == IF match.at_home THEN home_goals ELSE away_goals
        opponent_goals == IF match.at_home THEN away_goals ELSE home_goals
    IN  [wins   |-> stats.wins + (IF team_goals > opponent_goals THEN 1 ELSE 0),
         draws  |-> stats.draws + (IF team_goals = opponent_goals THEN 1 ELSE 0),
         losses |-> stats.losses + (IF team_goals < opponent_goals THEN 1 ELSE 0),
         goals_for |-> stats.goals_for + team_goals,
         goals_against |-> stats.goals_against + opponent_goals,
         over_25 |-> stats.over_25 + (IF 2 * total_goals > 5 THEN 1 ELSE 0),
         btts |-> stats.btts + (IF home_goals > 0 /\ away_goals > 0 THEN 1 ELSE 0),
         clean_sheets |-> stats.clean_sheets + (IF opponent_goals = 0 THEN 1 ELSE 0),
         games_played |-> stats.games_played + 1]

\* for match in recent_matches (lines 97-127).
RECURSIVE FormStats(_, _)
FormStats(matches, stats) ==
    IF matches = << >> THEN stats
    ELSE FormStats(Tail(matches),
                   IF IsCounted(Head(matches)) THEN AddMatch(stats, Head(matches))
                   ELSE stats)

\* num / den as Python divides: ZeroDivisionError for den = 0, else the
\* quotient, kept as the fraction.
Divide(num, den) ==
    IF den = 0 THEN [error |-> TRUE, num |-> 0, den |-> 1]
    ELSE [error |-> FALSE, num |-> num, den |-> den]

\* return None (lines 86-88, 129-130, and 143-145 after an exception, in
\* which case zero_division tells that a division by zero was the exception).
NoSummary(zero_division) ==
    [kind |-> "None", stats |-> ZeroStats, form_percentage |-> Divide(0, 1),
     zero_division |-> zero_division]

\* analyze_team_form, given the list get_team_recent_matches returned.
analyze_team_form(recent_matches) ==
    IF recent_matches = << >> THEN NoSummary(FALSE)
    ELSE LET stats == FormStats(recent_matches, ZeroStats)
         IN  IF stats.games_played = 0 THEN NoSummary(FALSE)
             ELSE LET gp == stats.games_played
                      form == Divide((stats.wins * 3 + stats.draws) * 100, gp * 3)
                  IN  IF form.error THEN NoSummary(TRUE)
                      ELSE [kind |-> "summary", stats |-> stats,
                            form_percentage |-> form, zero_division |-> FALSE]

\* The home team's form inside the loop of execute (lines 244-249): the
\* fixture is passed over when the form is None.
AnalyzeForm ==
    /\ fn = "none"
    /\ fn' = "analyze_team_form"
    /\ LET home_form == analyze_team_form(arg)
       IN  out' = [home_form |-> home_form, skipped |-> home_form.kind = "None"]
    /\ UNCHANGED arg
    /\ UNCHANGED <<apiVars, detVars>>

InitForm ==
    /\ ApiInit /\ DetInit
    /\ fn = "none"
    /\ arg \in FormLists
    /\ out = [home_form |-> NoSummary(FALSE), skipped |-> FALSE]

SpecForm == InitForm /\ [][AnalyzeForm]_vars

\* ------------------------------------------------------------------------
\* RegressaoMediaModule.execute: which fixtures of the two fetches are analysed
\* ------------------------------------------------------------------------

\* What the loop reads of a fixture: its status, whether its kickoff is today
\* in Lisbon, whether its league is in allowed_leagues, whether one of its
\* teams is on the watchlist.
FixtureInfos ==
    [status : {"NS", "TBD", "PST"}, today : BOOLEAN, league : BOOLEAN, watch : BOOLEAN]

\* The lists of fixture ids without repetition.
FixtureLists ==
    {<< >>} \cup {<<f>> : f \in Fixtures}
            \cup {l \in {<<f, g>> : f \in Fixtures, g \in Fixtures} : l[1] # l[2]}

\* One day as the provider reports it: the fixtures, what the per-league
\* queries return (fixtures of configured leagues) and what the all-leagues
\* queries return.
FetchedDays ==
    {d \in [info : [Fixtures -> FixtureInfos], league_matches : FixtureLists,
            day_all : FixtureLists] :
        \A i \in 1..Len(d.league_matches) : d.info[d.league_matches[i]].league}

\* watchlist_matches: the fixtures of day_all with a team on the watchlist
\* (lines 207-223).
watchlist_matches(d) == SelectSeq(d.day_all, LAMBDA f : d.info[f].watch)

\* Variant: the two lists are put together as they are.
Mut_UniqueById(matches) == matches

\* list(all_matches_dict.values()) after all_matches_dict[id] = match for every
\* match (lines 225-230): one entry per id, in the order of first appearance.
RECURSIVE UniqueById(_)
UniqueById(matches) ==
    IF matches = << >> THEN << >>
    ELSE LET rest == UniqueById(SubSeq(matches, 1, Len(matches) - 1))
             last == matches[Len(matches)]
         IN  IF \E i \in 1..Len(rest) : rest[i] = last THEN rest
             ELSE Append(rest, last)

\* The tests before games_analyzed += 1 (lines 247-275).
IsAnalysed(info) ==
    /\ info.status \in {"NS", "TBD"}
    /\ info.today
    /\ (info.league \/ info.watch)

\* The fixtures that reach the analysis, in order.
analysed_fixtures(d) ==
    SelectSeq(UniqueById(d.league_matches \o watchlist_matches(d)),
              LAMBDA f : IsAnalysed(d.info[f]))

\* One run over the day's fetches.
RegressaoSelect ==
    /\ fn = "none"
    /\ fn' = "regressao_select"
    /\ out' = analysed_fixtures(arg)
    /\ UNCHANGED arg
    /\ UNCHANGED <<apiVars, detVars>>

InitSelect ==
    /\ ApiInit /\ DetInit
    /\ fn = "none"
    /\ arg \in FetchedDays
    /\ out = << >>

SpecSelect == InitSelect /\ [][RegressaoSelect]_vars

\* ------------------------------------------------------------------------
\* execute() of the three detectors on a day's fixtures, some of them malformed
\* ------------------------------------------------------------------------

\* Fixtures the provider returns for one run.
MaxMatches == 3

\* A fixture of the provider's list: complete, or lacking its "teams", its
\* "fixture" or its "league" object.
FixtureShapes == {"ok", "no_teams", "no_fixture", "no_league"}

\* The lists a run can fetch (each fixture in a league the detector covers).
FetchedLists ==
    UNION {[1..n -> FixtureShapes] : n \in 1..MaxMatches}

\* The statements of execute() between the fetch and the per-fixture loop,
\* which are outside the loop's try: elite reads match['teams'] of every
\* fixture (jogos_elite.py 77-79); regressao reads match['teams'] of every
\* fixture of the day (regressao_media.py 213-215) and match['fixture']['id']
\* of every fixture kept (231-232); campeonatos reads the fixtures only
\* inside the try of its league loop (campeonatos_padrao.py 178-200), after
\* all_matches has been extended.
RaisesBeforeLoop(det, matches) ==
    CASE det = "elite" ->
           \E i \in 1..Len(matches) : matches[i] = "no_teams"
      [] det = "regressao" ->
           \E i \in 1..Len(matches) : matches[i] \in {"no_teams", "no_fixture"}
      [] OTHER -> FALSE

\* The per-fixture loop: a body that raises is caught by the loop's try
\* and the loop continues (jogos_elite.py 200-202, regressao_media.py
\* 402-404, campeonatos_padrao.py 357-359); a fixture without its "fixture"
\* object has no status and is passed over by regressao and campeonatos.
\* The result is the set of positions whose body ran to its end.
ProcessedInLoop(det, matches) ==
    {i \in 1..Len(matches) : matches[i] = "ok"}

\* execute() on the fetched list: the fixtures processed, whether the
\* summary was sent, and whether the outer except sent the admin message.
execute(det, matches) ==
    IF RaisesBeforeLoop(det, matches)
      THEN [processed |-> {}, summary |-> FALSE, admin_message |-> TRUE]
      ELSE [processed |-> ProcessedInLoop(det, matches), summary |-> TRUE,
            admin_message |-> FALSE]

RunOnFixtures ==
    /\ fn = "none"
    /\ fn' = "execute"
    /\ out' = execute(arg.det, arg.matches)
    /\ UNCHANGED arg
    /\ UNCHANGED <<apiVars, detVars>>

InitExecute ==
    /\ ApiInit /\ DetInit
    /\ fn = "none"
    /\ arg \in [det : Detectors, matches : FetchedLists]
    /\ out = [processed |-> {}, summary |-> FALSE, admin_message |-> FALSE]

SpecExecute == InitExecute /\ [][RunOnFixtures]_vars

\* ---------------------------------------------------------------------
\* Team-name normalisation (regressao_media.normalize_name and
\* JogosEliteModule.normalize_name).  A name is a sequence of characters;
\* the alphabet has one character of every class the code tells apart.
MaxNameLen == 3

\* "a^" and "A^" are precomposed accented letters, "^" is a combining mark
\* on its own, "o/" is a letter with a stroke, which has no decomposition,
\* "tab" is a whitespace character other than the space.
Mark == "^"
Whitespace == {" ", "tab"}
Chars == {"a", "A", "a^", "A^", Mark, "o/", "1", ".", " ", "tab"}

RECURSIVE NamesUpTo(_)
NamesUpTo(n) ==
    IF n = 0 THEN {<< >>}
    ELSE LET shorter == NamesUpTo(n - 1)
         IN  shorter \cup {Append(x, c) : x \in {y \in shorter : Len(y) = n - 1}, c \in Chars}

Names == NamesUpTo(MaxNameLen)

\* unicodedata.normalize('NFKD', name): a precomposed letter becomes its base
\* letter followed by the combining mark.
Decompose(c) ==
    CASE c = "a^" -> <<"a", Mark>>
      [] c = "A^" -> <<"A", Mark>>
      [] OTHER -> <<c>>

RECURSIVE NFKD(_)
NFKD(name) ==
    IF name = << >> THEN << >> ELSE Decompose(Head(name)) \o NFKD(Tail(name))

\* ''.join(c for c in name if not unicodedata.combining(c))
StripCombining(name) == SelectSeq(name, LAMBDA c : c # Mark)

\* name.lower()
LowerChar(c) == IF c = "A" THEN "a" ELSE IF c = "A^" THEN "a^" ELSE c

Lower(name) == [i \in 1..Len(name) |-> LowerChar(name[i])]

\* re.sub(r'[^a-zA-Z0-9\s]', '', ...)
KeptByRegex(c) == c \in {"a", "A", "1"} \cup Whitespace

RemoveSpecial(name) == SelectSeq(name, KeptByRegex)

\* name.split()
RECURSIVE SplitWs(_, _, _)
SplitWs(name, word, words) ==
    IF name = << >>
      THEN IF word = << >> THEN words ELSE Append(words, word)
      ELSE IF Head(name) \in Whitespace
             THEN SplitWs(Tail(name), << >>,
                          IF word = << >> THEN words ELSE Append(words, word))
             ELSE SplitWs(Tail(name), Append(word, Head(name)), words)

\* ' '.join(words)
RECURSIVE JoinSpace(_)
JoinSpace(words) ==
    IF words = << >> THEN << >>
    ELSE IF Len(words) = 1 THEN words[1]
    ELSE words[1] \o <<" ">> \o JoinSpace(Tail(words))

\* Variant: the method without its last line (whitespace is not collapsed).
Mut_elite_normalize_name(name) ==
    IF name = << >> THEN << >>
    ELSE RemoveSpecial(Lower(StripCombining(NFKD(name))))

\* regressao_media.normalize_name
normalize_name(name) ==
    IF name = << >> THEN << >>
    ELSE JoinSpace(SplitWs(RemoveSpecial(Lower(StripCombining(NFKD(name)))),
                           << >>, << >>))

\* JogosEliteModule.normalize_name
elite_normalize_name(name) ==
    IF name = << >> THEN << >>
    ELSE JoinSpace(SplitWs(RemoveSpecial(Lower(StripCombining(NFKD(name)))),
                           << >>, << >>))

\* Both functions applied to one name, and the function applied to its own
\* result.
NormalizeName ==
    /\ fn = "none"
    /\ fn' = "normalize_name"
    /\ out' = [regressao |-> normalize_name(arg),
               elite     |-> elite_normalize_name(arg),
               twice     |-> normalize_name(normalize_name(arg))]
    /\ UNCHANGED arg
    /\ UNCHANGED <<apiVars, detVars>>

InitNormalize ==
    /\ ApiInit /\ DetInit
    /\ fn = "none"
    /\ arg \in Names
    /\ out = [regressao |-> << >>, elite |-> << >>, twice |-> << >>]

SpecNormalize == InitNormalize /\ [][NormalizeName]_vars

\* ---------------------------------------------------------------------
\* Startup: Config.validate() at import of config.py, construction of the
\* modules, then the detectors' runs.  Thresholds are in hundredths.
Configs ==
    [credentials     : BOOLEAN,
     API_DAILY_LIMIT : {0, MAX_API_REQUESTS},
     thresholds      : {<<75, 95>>, <<95, 95>>, <<95, 75>>, <<75, 101>>},
     ACTIVE_HOURS_START : {8, 24},
     ACTIVE_HOURS_END   : {0 - 1, 23},
     ELITE_GOALS_THRESHOLD : {0, ELITE_GOALS_THRESHOLD},
     valid_leagues   : {0, 1}]

\* Config.validate(): TRUE when the list of errors is empty.
validate(c) ==
    /\ c.credentials
    /\ ~(c.API_DAILY_LIMIT <= 0)
    /\ (0 <= c.thresholds[1] /\ c.thresholds[1] <= 100)
    /\ (0 <= c.thresholds[2] /\ c.thresholds[2] <= 100)
    /\ ~(c.thresholds[1] >= c.thresholds[2])
    /\ (0 <= c.ACTIVE_HOURS_START /\ c.ACTIVE_HOURS_START <= 23)
    /\ (0 <= c.ACTIVE_HOURS_END /\ c.ACTIVE_HOURS_END <= 23)
    /\ ~(c.ELITE_GOALS_THRESHOLD <= 0)

\* import config: "if not Config.validate(): raise RuntimeError"; otherwise
\* main goes on to construct the modules.  CampeonatosPadraoModule.__init__
\* with no valid league logs an error and returns normally.
ImportConfig ==
    /\ fn = "none"
    /\ fn' = IF validate(arg) THEN "running" ELSE "RuntimeError"
    /\ UNCHANGED <<arg, out>>
    /\ UNCHANGED <<apiVars, detVars>>

\* A job calls execute() of a detector.  CampeonatosPadraoModule.execute
\* without leagues sends the admin message and returns; every other run goes
\* on to its analysis.
ExecuteDetector(det) ==
    /\ fn = "running"
    /\ LET no_leagues == det = "campeonatos" /\ arg.valid_leagues = 0
       IN  out' = [started  |-> out.started \cup {det},
                   analysed |-> IF no_leagues THEN out.analysed
                                ELSE out.analysed \cup {det},
                   admin_message |-> out.admin_message \/ no_leagues]
    /\ UNCHANGED <<fn, arg>>
    /\ UNCHANGED <<apiVars, detVars>>

InitStartup ==
    /\ ApiInit /\ DetInit
    /\ fn = "none"
    /\ arg \in Configs
    /\ out = [started |-> {}, analysed |-> {}, admin_message |-> FALSE]

NextStartup == ImportConfig \/ \E det \in Detectors : ExecuteDetector(det)

SpecStartup == InitStartup /\ [][NextStartup]_vars

\* ---------------------------------------------------------------------
\* RateLimiter (src/utils/rate_limiter.py), used by one caller at a time.
\* arg is time.time() in whole seconds; out holds self.calls and, beside it,
\* the instants at which wait_if_needed has returned.
max_calls == 2
time_window == 3

\* The clock is moved by hand up to MaxClock (a sleep may carry it further);
\* at most MaxSends calls of wait_if_needed are made.
MaxClock == 4
MaxSends == 5

\* while self.calls and self.calls[0] < now - self.time_window: popleft()
RECURSIVE Purge(_, _)
Purge(deque, t) ==
    IF deque # << >> /\ Head(deque) < t - time_window
      THEN Purge(Tail(deque), t)
      ELSE deque

\* wait_if_needed (lines 23-45): with the window full and the oldest call
\* less than time_window old it sleeps until that call is time_window old
\* and returns True, recording nothing; otherwise it records now and
\* returns False.
WaitIfNeeded ==
    /\ Len(out.allowed) < MaxSends
    /\ fn' = "wait_if_needed"
    /\ LET deque == Purge(out.calls, arg)
           full == Len(deque) >= max_calls
           wait_time == IF full THEN Head(deque) + time_window - arg ELSE 0
       IN  IF full /\ wait_time > 0
             THEN /\ arg' = arg + wait_time
                  /\ out' = [calls   |-> deque,
                             allowed |-> Append(out.allowed, arg + wait_time),
                             waited  |-> TRUE]
             ELSE /\ arg' = arg
                  /\ out' = [calls   |-> Append(deque, arg),
                             allowed |-> Append(out.allowed, arg),
                             waited  |-> FALSE]
    /\ UNCHANGED <<apiVars, detVars>>

\* Time passes between two calls.
LimiterTick ==
    /\ arg < MaxClock
    /\ arg' = arg + 1
    /\ UNCHANGED <<fn, out>>
    /\ UNCHANGED <<apiVars, detVars>>

\* RateLimiter.__init__: self.calls = deque()
InitLimiter ==
    /\ ApiInit /\ DetInit
    /\ fn = "none"
    /\ arg = 0
    /\ out = [calls |-> << >>, allowed |-> << >>, waited |-> FALSE]

NextLimiter == WaitIfNeeded \/ LimiterTick

SpecLimiter == InitLimiter /\ [][NextLimiter]_vars

\* ---------------------------------------------------------------------
\* TelegramClient.send_message (src/telegram_client.py 47-110).  arg is the
\* call: whether chat_id and message are non-empty, Config.DRY_RUN and
\* max_retries; fn is the position in the call; out is the loop variable,
\* the outcomes of bot.send_message so far and what the call returned.
MaxRetries == 3

SendCalls == [nonempty : BOOLEAN, dry_run : BOOLEAN, max_retries : 0..MaxRetries]

\* What one bot.send_message can do: return, or raise one of these.
SendOutcomes == {"ok", "RetryAfter", "BadRequest", "Forbidden", "TelegramError"}

\* Variant: only Forbidden ends the call; BadRequest is retried like any
\* other TelegramError.
Mut_EndsCall(outcome) == outcome = "Forbidden"

\* except BadRequest / except Forbidden: return False (lines 89-97).
EndsCall(outcome) == outcome \in {"BadRequest", "Forbidden"}

\* Lines 53-66: the guards before the loop, and the loop's first test.
SendMessageEnter ==
    /\ fn = "none"
    /\ IF ~arg.nonempty
         THEN fn' = "returned" /\ out' = [out EXCEPT !.result = "False"]
         ELSE IF arg.dry_run
                THEN fn' = "returned" /\ out' = [out EXCEPT !.result = "True"]
                ELSE IF arg.max_retries = 0
                       THEN fn' = "returned" /\ out' = [out EXCEPT !.result = "False"]
                       ELSE fn' = "loop" /\ UNCHANGED out
    /\ UNCHANGED arg
    /\ UNCHANGED <<apiVars, detVars>>

\* e.retry_after of a RetryAfter, in seconds.
RetryAfters == {1, 5, 30}

\* Seconds slept in the pass: retry_after + 1 after a RetryAfter (84-86),
\* (attempt + 1) * 2 after another TelegramError that is not the last
\* (100-103).
SleepAfter(outcome, retry_after, k, last) ==
    CASE outcome = "RetryAfter" -> retry_after + 1
      [] outcome = "TelegramError" /\ ~last -> (k + 1) * 2
      [] OTHER -> 0

\* One pass of "for attempt in range(max_retries)" (lines 66-108), followed
\* by "return False" (110) when it was the last.
SendAttempt(outcome, retry_after) ==
    /\ fn = "loop"
    /\ LET tried == Append(out.tried, outcome)
           last == out.attempt + 1 >= arg.max_retries
           slept == SleepAfter(outcome, retry_after, out.attempt, last)
       IN  IF outcome = "ok"
             THEN /\ fn' = "returned"
                  /\ out' = [out EXCEPT !.tried = tried, !.result = "True",
                                        !.slept = slept,
                                        !.messages_sent = out.messages_sent + 1]
             ELSE IF EndsCall(outcome)
               THEN /\ fn' = "returned"
                    /\ out' = [out EXCEPT !.tried = tried, !.result = "False",
                                          !.slept = slept,
                                          !.messages_failed = out.messages_failed + 1]
             ELSE IF last
               THEN /\ fn' = "returned"
                    /\ out' = [out EXCEPT !.tried = tried, !.result = "False",
                                  !.slept = slept,
                                  !.attempt = out.attempt + 1,
                                  !.messages_failed = out.messages_failed
                                      + (IF outcome = "TelegramError" THEN 1 ELSE 0)]
             ELSE /\ fn' = "loop"
                  /\ out' = [out EXCEPT !.tried = tried, !.slept = slept,
                                        !.attempt = out.attempt + 1]
    /\ UNCHANGED arg
    /\ UNCHANGED <<apiVars, detVars>>

InitSend ==
    /\ ApiInit /\ DetInit
    /\ fn = "none"
    /\ arg \in SendCalls
    /\ out = [attempt |-> 0, tried |-> << >>, result |-> "none", slept |-> 0,
              messages_sent |-> 0, messages_failed |-> 0]

NextSend ==
    \/ SendMessageEnter
    \/ \E outcome \in SendOutcomes, retry_after \in RetryAfters :
          SendAttempt(outcome, retry_after)

SpecSend == InitSend /\ [][NextSend]_vars

\* Time-aware specification: a bounded number of reads, the clock moving.
Read ==
    /\ calls < MaxCalls
    /\ calls' = calls + 1
    /\ \E key \in Keys : MakeRequestEnter(key) /\ op' = KeyOp(key)

Step ==
    \E outcome \in Outcomes, data \in Payloads : Attempt(outcome, data)

Init == ApiInit /\ DetInit /\ EvalInit

Next == Tick \/ Read \/ Step

Spec == Init /\ [][Next]_vars

\* Retry specification: the reads of Spec with the sleeps of every attempt
\* noted.
TimedStep ==
    \E outcome \in Outcomes, data \in Payloads : TimedAttempt(outcome, data)

InitTimed ==
    /\ ApiInit /\ DetInit
    /\ fn = "none"
    /\ arg = << >>
    /\ out = [attempt |-> 0, outcome |-> "none", pacing |-> FALSE, backoff |-> 0,
              first |-> FALSE, after_success |-> FALSE]

NextTimed == Tick \/ Read \/ TimedStep

SpecTimed == InitTimed /\ [][NextTimed]_vars

\* Header specification: every response carries the provider's rate-limit
\* headers; the "remaining" value is Absent when the provider sent none.
RemainingHeaders == {Absent, 0, 10, 11}

\* One iteration of the retry loop answered with the given "remaining"
\* header.  The loop reads response.status_code and response.json() and
\* nothing else of the response, so the client's state moves as in Attempt;
\* what the latest successful response reported is noted beside it.
AttemptWithHeaders(outcome, data, remaining) ==
    /\ Iteration(outcome, data)
    /\ fn' = "_make_request"
    /\ out' = IF outcome = "ok" THEN [account_remaining |-> remaining] ELSE out
    /\ UNCHANGED arg

HeaderStep ==
    \E outcome \in Outcomes, data \in Payloads, remaining \in RemainingHeaders :
        AttemptWithHeaders(outcome, data, remaining)

InitHeaders ==
    /\ ApiInit /\ DetInit
    /\ fn = "none"
    /\ arg = << >>
    /\ out = [account_remaining |-> Absent]

NextHeaders == Tick \/ Read \/ HeaderStep

SpecHeaders == InitHeaders /\ [][NextHeaders]_vars

\* ---------------------------------------------------------------------
\* RegressaoMediaModule.execute and the active hours (regressao_media.py
\* 153-173): a run reads the Lisbon hour first.  out holds the hour of the
\* run in progress and, beside it, the counter, the cache, the ledgers and
\* the deliveries as they were when the run began.
REGRESSAO_ACTIVE_HOURS_START == 8
REGRESSAO_ACTIVE_HOURS_END == 23

\* now_lisbon.hour: the first and last hour of the day and the hours at the
\* edges of the active period.
Hours == {0, REGRESSAO_ACTIVE_HOURS_START - 1, REGRESSAO_ACTIVE_HOURS_START,
          REGRESSAO_ACTIVE_HOURS_END}

\* Variant: the period begins one hour early.
Mut_IsActiveHour(current_hour) ==
    /\ REGRESSAO_ACTIVE_HOURS_START - 1 <= current_hour
    /\ current_hour <= REGRESSAO_ACTIVE_HOURS_END

\* Line 168: START <= current_hour <= END
IsActiveHour(current_hour) ==
    /\ REGRESSAO_ACTIVE_HOURS_START <= current_hour
    /\ current_hour <= REGRESSAO_ACTIVE_HOURS_END

\* execute() up to the test of the hour (lines 153-173): outside the active
\* hours a diagnostic message goes to the chat and the run is over.
RegressaoStart(current_hour) ==
    /\ fn \in {"none", "regressao_done"}
    /\ pc = "idle"
    /\ fn' = IF IsActiveHour(current_hour) THEN "regressao_run" ELSE "regressao_done"
    /\ out' = [hour |-> current_hour,
               diagnostic |-> ~IsActiveHour(current_hour),
               count0 |-> request_count, cache0 |-> cache,
               ledger0 |-> notified, sent0 |-> sent]
    /\ UNCHANGED arg
    /\ UNCHANGED <<apiVars, detVars>>

\* A provider read of the run in progress (lines 184-205, and the reads of
\* check_team_under_15).
RegressaoRead ==
    /\ fn = "regressao_run"
    /\ Read

\* An alert of the run in progress is delivered and its key recorded
\* (lines 293-296, 369-371).
RegressaoAlert(f) ==
    /\ fn = "regressao_run"
    /\ pc = "idle"
    /\ ~AlreadyNotified("regressao", today, f)
    /\ sent' = [sent EXCEPT ![<<"regressao", today, f>>] = @ + 1]
    /\ notified' = [notified EXCEPT !["regressao"] =
                      @ \cup {notification_key("regressao", today, f)}]
    /\ UNCHANGED <<today, rpc, rdet, rdate, ridx, runs, running, last_skip>>
    /\ UNCHANGED <<apiVars, evalVars>>

\* The run in progress ends.
RegressaoEnd ==
    /\ fn = "regressao_run"
    /\ pc = "idle"
    /\ fn' = "regressao_done"
    /\ UNCHANGED <<arg, out>>
    /\ UNCHANGED <<apiVars, detVars>>

InitHours ==
    /\ ApiInit /\ DetInit
    /\ fn = "none"
    /\ arg = << >>
    /\ out = [hour |-> REGRESSAO_ACTIVE_HOURS_START, diagnostic |-> FALSE,
              count0 |-> 0, cache0 |-> cache, ledger0 |-> notified, sent0 |-> sent]

StartRun == \E current_hour \in Hours : RegressaoStart(current_hour)

Alert == \E f \in Fixtures : RegressaoAlert(f)

NextHours == StartRun \/ RegressaoRead \/ Step \/ Alert \/ RegressaoEnd

SpecHours == InitHours /\ [][NextHours]_vars

\* ---------------------------------------------------------------------
\* BotConsolidado.start and shutdown (main.py 347-412).  fn is the position
\* in start(); out holds what has happened to the scheduler and the
\* exception in flight.
MaxLoops == 2

\* What an awaited step can raise: an Exception, a KeyboardInterrupt, or the
\* CancelledError of a cancelled task (a BaseException).
Exceptions == {"Exception", "KeyboardInterrupt", "CancelledError"}

\* Variant: shutdown() stops the scheduler whether it runs or not.
Mut_StopsScheduler(is_running) == TRUE

\* Line 384: hasattr(self, 'scheduler') and self.scheduler.running
StopsScheduler(is_running) == is_running

\* A step of the try block raises: control goes to the except clauses.
Raise(e) ==
    /\ fn' = "except"
    /\ out' = [out EXCEPT !.exc = e]

\* Lines 351-353: the connectivity test returns True or False, or raises;
\* False raises ConnectionError.
TestConnection ==
    /\ fn = "test_connection"
    /\ \/ /\ fn' = "scheduler_start"
          /\ out' = [out EXCEPT !.tested = "ok"]
       \/ /\ fn' = "except"
          /\ out' = [out EXCEPT !.tested = "failed", !.exc = "Exception"]
       \/ \E e \in Exceptions :
            /\ fn' = "except"
            /\ out' = [out EXCEPT !.tested = "raised", !.exc = e]
    /\ UNCHANGED arg
    /\ UNCHANGED <<apiVars, detVars>>

\* Line 355: self.scheduler.start()
SchedulerStart ==
    /\ fn = "scheduler_start"
    /\ \/ /\ fn' = "send_startup_message"
          /\ out' = [out EXCEPT !.running = TRUE, !.starts = @ + 1,
                                !.early = out.tested # "ok"]
       \/ Raise("Exception")
    /\ UNCHANGED arg
    /\ UNCHANGED <<apiVars, detVars>>

\* Lines 358-359: send_startup_message() catches its own Exceptions;
\* keep_alive() follows.
AwaitStep ==
    /\ fn \in {"send_startup_message", "keep_alive"}
    /\ \/ /\ fn' = IF fn = "send_startup_message" THEN "keep_alive" ELSE "loop"
          /\ UNCHANGED out
       \/ \E e \in IF fn = "keep_alive" THEN Exceptions
                   ELSE Exceptions \ {"Exception"} : Raise(e)
    /\ UNCHANGED arg
    /\ UNCHANGED <<apiVars, detVars>>

\* Lines 367-368: while True: await asyncio.sleep(60)
MainLoop ==
    /\ fn = "loop"
    /\ \/ /\ out.loops < MaxLoops
          /\ fn' = "loop"
          /\ out' = [out EXCEPT !.loops = @ + 1]
       \/ \E e \in Exceptions \ {"Exception"} : Raise(e)
    /\ UNCHANGED arg
    /\ UNCHANGED <<apiVars, detVars>>

\* Lines 370-377: KeyboardInterrupt is logged; an Exception is logged and
\* reported to the administrator, whatever that send does; a CancelledError
\* meets no clause.
ExceptClauses ==
    /\ fn = "except"
    /\ fn' = "finally"
    /\ out' = [out EXCEPT !.handled = out.exc # "CancelledError",
                          !.admin = IF out.exc = "Exception" THEN @ + 1 ELSE @]
    /\ UNCHANGED arg
    /\ UNCHANGED <<apiVars, detVars>>

\* Lines 378-387: finally calls shutdown(), which stops the scheduler if it
\* is running; scheduler.shutdown(wait=True) may raise.
Finally ==
    /\ fn = "finally"
    /\ IF StopsScheduler(out.running)
         THEN \/ /\ fn' = "api_close"
                 /\ out' = [out EXCEPT !.shutdowns = @ + 1, !.stops = @ + 1,
                                       !.idle_stop = ~out.running,
                                       !.running = FALSE]
              \/ /\ fn' = "exited"
                 /\ out' = [out EXCEPT !.shutdowns = @ + 1, !.stops = @ + 1,
                                       !.idle_stop = ~out.running]
         ELSE /\ fn' = "api_close"
              /\ out' = [out EXCEPT !.shutdowns = @ + 1]
    /\ UNCHANGED arg
    /\ UNCHANGED <<apiVars, detVars>>

\* Lines 389-410: the API client is closed, the keep-alive server stopped
\* and the farewell sent, each inside its own try; failed counts the steps
\* whose Exception was logged.
ShutdownStep ==
    /\ fn \in {"api_close", "stop_server", "farewell"}
    /\ fn' = CASE fn = "api_close" -> "stop_server"
               [] fn = "stop_server" -> "farewell"
               [] OTHER -> "exited"
    /\ \/ UNCHANGED out
       \/ out' = [out EXCEPT !.failed = @ + 1]
    /\ UNCHANGED arg
    /\ UNCHANGED <<apiVars, detVars>>

InitStart ==
    /\ ApiInit /\ DetInit
    /\ fn = "test_connection"
    /\ arg = << >>
    /\ out = [tested |-> "no", running |-> FALSE, starts |-> 0, early |-> FALSE,
              exc |-> "none", handled |-> FALSE, admin |-> 0, loops |-> 0,
              shutdowns |-> 0, stops |-> 0, idle_stop |-> FALSE, failed |-> 0]

NextStart ==
    \/ TestConnection
    \/ SchedulerStart
    \/ AwaitStep
    \/ MainLoop
    \/ ExceptClauses
    \/ Finally
    \/ ShutdownStep

SpecStart == InitStart /\ [][NextStart]_vars

\* Quota specification: the clock stands still, reads are unbounded; the
\* counter is bounded by the limit itself.
ReadAny ==
    /\ UNCHANGED calls
    /\ \E key \in Keys : MakeRequestEnter(key) /\ op' = KeyOp(key)

NextQuota == ReadAny \/ Step

SpecQuota == Init /\ [][NextQuota]_vars

\* Facade specification: every read operation of the client, the clock
\* standing still so that what is cached stays valid.
StatsBatch == GetTeamsStatsBatch

HtBatch == GetTeamsHtStatsBatch

League == \E enabled \in BOOLEAN : GetLeagueRealStats(enabled)

StepLeague ==
    /\ cur_key = LeagueKey
    /\ \E data \in LeaguePayloads : Attempt("ok", data)

NextFacade == FacadeDirect \/ StatsBatch \/ HtBatch \/ League \/ Step \/ StepLeague

SpecFacade == Init /\ [][NextFacade]_vars

\* get_team_goals_average on every response of the bounded set.
InitAverage ==
    /\ ApiInit /\ DetInit
    /\ fn = "none"
    /\ arg \in StatsResponses
    /\ out = None

SpecAverage == InitAverage /\ [][GoalsAverage]_vars

\* Detector runs as the process schedules them: any task may start while
\* another is suspended in a send.
Start == \E t \in Tasks, det \in Detectors : Execute(t, det)

Fixture == \E t \in Tasks, q \in BOOLEAN : ProcessFixture(t, q)

Send == \E t \in Tasks, ok \in BOOLEAN : SendReturns(t, ok)

End == \E t \in Tasks : Finish(t)

NextRuns == Start \/ Fixture \/ Send \/ End \/ NextDay

SpecRuns == Init /\ [][NextRuns]_vars

\* The same detector runs, one at a time.
StartAlone ==
    /\ \A t \in Tasks : rpc[t] = "idle"
    /\ Start

NextSeq == StartAlone \/ Fixture \/ Send \/ End \/ NextDay

SpecSeq == Init /\ [][NextSeq]_vars

\* ------------------------------------------------------------------------
\* Claims
\* ------------------------------------------------------------------------

\* C1: over any interleaving of runs of one detector, at most one alert is
\* sent per (detector, date, fixture).
C1_AtMostOneAlertPerKey ==
    \A k \in AlertKeys : sent[k] <= 1

\* C2: in non-overlapping runs, once the alert for (detector, date, fixture)
\* has been sent and its key is in the ledger, no later step sends an alert
\* for it again.
C2_NoResendAfterMark ==
    [][\A k \in AlertKeys :
          notification_key(k[1], k[2], k[3]) \in notified[k[1]] => sent'[k] = sent[k]]_vars

\* A later run met a qualifying fixture whose alert had been sent, and skipped it.
C2_Witness ==
    /\ last_skip
    /\ runs >= 2
    /\ \E k \in AlertKeys : sent[k] = 1

\* The last read missed the cache (it reached the admission check).
MissedCache == pc = "loop" \/ last_kind \in {"denied", "ok", "exhausted"}

\* C3: a read that misses the cache goes to the network if and only if
\* used < limit * block_threshold at the admission check.
C3_AdmitIffBelowBlockThreshold ==
    MissedCache =>
        ((last_kind # "denied") <=>
            (pre_count * 100 < MAX_API_REQUESTS * API_BLOCK_THRESHOLD_PCT))

\* C4: the first admission check after the period boundary leaves the
\* request counter at 0.
C4_ResetAtPeriodBoundary ==
    crossed => pre_count = 0

\* C5: a read less than ttl(category) seconds after the entry was stored
\* returns the stored value; a read at or after ttl seconds is a miss that
\* goes on to the admission check, the entry still being in the cache.
C5_CacheValidIffYoungerThanTtl ==
    pre_entry # << >> =>
        LET e == pre_entry[1]
            ttl == cache_durations(CacheType(cur_key))
        IN  /\ (check_at - e.ts < ttl) => (last_kind = "hit" /\ last_value = e.data)
            /\ (check_at - e.ts >= ttl) => MissedCache

\* A read exactly ttl seconds after the store went on to the network.
C5_Witness ==
    /\ pre_entry # << >>
    /\ check_at - pre_entry[1].ts = cache_durations(CacheType(cur_key))
    /\ pc = "loop"

\* C6: a call issues at most 3 HTTP attempts and has returned once it has
\* issued 3.
C6_AtMostThreeAttempts ==
    /\ call_http <= 3
    /\ call_http = 3 => pc = "idle"

\* A call that used all three attempts, the first two of them failing.
C6_Witness ==
    /\ pc = "idle"
    /\ call_http = 3

\* C7: when all 3 attempts fail the read returns [] and nothing is raised.
C7_FailSoft ==
    /\ last_kind # "raised"
    /\ (pc = "idle" /\ call_http = 3 /\ last_kind # "ok") =>
            (last_kind = "exhausted" /\ last_value = Empty)

\* Three attempts failed, none of them reaching the counter.
C7_Witness ==
    /\ last_kind = "exhausted"
    /\ call_http = 3
    /\ request_count = pre_count

\* C8: a read refused by the quota gate returns [], issues no HTTP request
\* and leaves the counter and the cache as they were.
C8_DeniedChangesNothing ==
    [][last_kind' = "denied" =>
          /\ last_value' = Empty
          /\ pc' = "idle"
          /\ call_http' = 0
          /\ request_count' = request_count
          /\ cache' = cache]_vars

\* A read was refused with the counter at the limit.
C8_Witness ==
    /\ last_kind = "denied"
    /\ pre_count >= MAX_API_REQUESTS
    /\ call_http = 0

\* C9: a read served from a valid cache entry issues no HTTP request and
\* leaves the counter unchanged.
C9_HitChangesNothing ==
    [][last_kind' = "hit" =>
          /\ pc' = "idle"
          /\ call_http' = 0
          /\ request_count' = request_count]_vars

\* A read was served from the cache after the network had filled it.
C9_Witness ==
    /\ last_kind = "hit"
    /\ last_value = <<"m1">>
    /\ request_count > 0

\* C10: the counter grows by exactly one per HTTP attempt issued, whatever
\* the attempt ends in.
C10_CountEveryAttempt ==
    request_count = pre_count + call_http

\* C11: a facade read that finds a still-valid cache entry for its key
\* returns the cached value, whatever the request counter is.
C11_CacheBeforeQuotaGate ==
    (pc = "idle" /\ pre_entry # << >> /\ last_kind # "disabled"
        /\ IsCacheValid(pre_entry[1].ts, CacheType(cur_key), check_at)) =>
            (last_kind = "hit" /\ last_value = pre_entry[1].data)

\* C12: get_league_real_stats returns None whenever the fixtures it has for
\* the league, fetched or cached, are fewer than 30, and never a fixture list.
C12_LeagueNullBelowThirty ==
    (op = "get_league_real_stats" /\ pc = "idle") =>
        /\ league_result.kind # "list"
        /\ Len(last_value) < MIN_LEAGUE_FIXTURES => league_result.kind = "None"

\* The response holds a statistics object.
HasStats == arg.shape \in {"object", "list_of_object"}

\* The provider's average is there and float() takes it.
Parseable == arg.average >= 0

\* C13 as stated: the provider's average when present and parseable;
\* otherwise goals_for_total / games_played_total; 0.0 when
\* games_played_total is 0; nothing is raised for any response shape.
C13_AverageExact ==
    fn = "get_team_goals_average" =>
        /\ out.kind # "raised"
        /\ (HasStats /\ Parseable) =>
              (out.kind = "value" /\ out.value * 10 = arg.average)
        /\ (HasStats /\ ~Parseable /\ arg.games > 0 /\ arg.goals >= 0) =>
              (out.kind = "value" /\ out.value * arg.games = 100 * arg.goals)
        /\ (HasStats /\ ~Parseable /\ arg.games = 0) =>
              (out.kind = "value" /\ out.value = 0)

\* C13, amended: the provider's average rounded to two decimals when
\* present and parseable; otherwise goals / games rounded to two decimals
\* when games > 0 and goals is a number; 0.0 when games is 0 or missing;
\* None when there are no statistics, when games is null, or when goals is
\* null with games > 0; nothing is raised for any response shape.
C13_AverageRounded ==
    fn = "get_team_goals_average" =>
        /\ out.kind \in {"value", "None"}
        /\ ~HasStats => out = None
        /\ (HasStats /\ Parseable) => out = Value(Round2(arg.average, 1000))
        /\ (HasStats /\ ~Parseable /\ arg.games > 0 /\ arg.goals >= 0) =>
              out = Value(Round2(arg.goals, arg.games))
        /\ (HasStats /\ ~Parseable /\ arg.games \in {0, Absent}) => out = Value(0)
        /\ (HasStats /\ ~Parseable
              /\ (arg.games = Null \/ (arg.games > 0 /\ arg.goals = Null))) => out = None

\* The average was unparseable text and the fallback divided 2 goals by 3 games.
C13_Witness ==
    /\ fn = "get_team_goals_average"
    /\ arg.shape = "list_of_object"
    /\ arg.average = Unparseable
    /\ arg.goals = 2 /\ arg.games = 3
    /\ out = Value(67)

\* C14: a team qualifies if and only if its most recent finished match
\* ended 0-0 and is at most MAX_LAST_MATCH_AGE_DAYS days old.
C14_QualifiesIffGoallessAndRecent ==
    (fn = "check_team_under_15" /\ arg # Empty /\ arg[1].status \in FinishedStatuses) =>
        (out.under <=>
            /\ arg[1].goals = <<0, 0>>
            /\ arg[1].days_ago <= MAX_LAST_MATCH_AGE_DAYS)

\* C15: the match taken as a team's last match has status FT, AET or PEN.
C15_LastMatchIsFinished ==
    (fn = "check_team_under_15" /\ arg # Empty) => out.used \in FinishedStatuses

FactorsHolding ==
    (IF out.home_under THEN 1 ELSE 0) + (IF out.away_under THEN 1 ELSE 0)
      + (IF arg.home_watchlist THEN 1 ELSE 0) + (IF arg.away_watchlist THEN 1 ELSE 0)

\* C17: the tier of an alert is ALTISSIMA for 3 or more factors, ALTA for
\* exactly 2, MEDIA for fewer than 2.
C17_TierByFactorCount ==
    (fn = "regressao" /\ out.alert) =>
        out.confidence = (IF FactorsHolding >= 3 THEN "ALTISSIMA"
                          ELSE IF FactorsHolding = 2 THEN "ALTA" ELSE "MEDIA")

\* C18: a team qualifies exactly when its name is on the elite list and its
\* average is a number >= the threshold; an alert goes out only for a fixture
\* with a qualifying team.
C18_EliteQualifiesAtThreshold ==
    (fn = "elite" /\ ~arg.notified) =>
        /\ out.home_qualifies <=>
              (arg.home_elite /\ arg.home_avg # None
                 /\ arg.home_avg.value >= ELITE_GOALS_THRESHOLD)
        /\ out.away_qualifies <=>
              (arg.away_elite /\ arg.away_avg # None
                 /\ arg.away_avg.value >= ELITE_GOALS_THRESHOLD)
        /\ out.alert => (out.home_qualifies \/ out.away_qualifies)

\* The home team's average is exactly the threshold, the away team's is
\* None, both are on the list: the home team qualified and the alert went out.
C18_Witness ==
    /\ fn = "elite"
    /\ arg.home_elite /\ arg.away_elite /\ ~arg.notified
    /\ arg.home_avg = Value(ELITE_GOALS_THRESHOLD)
    /\ arg.away_avg = None
    /\ out.home_qualifies /\ ~out.away_qualifies
    /\ out.alert

\* The mean of the two teams' over-2.5 rates, of their BTTS rates, is at
\* least t percent.
MeanOverAtLeast(t) ==
    MeanAtLeast(arg.home_form.over_25, arg.home_form.games_played,
                arg.away_form.over_25, arg.away_form.games_played, t)

MeanBttsAtLeast(t) ==
    MeanAtLeast(arg.home_form.btts, arg.home_form.games_played,
                arg.away_form.btts, arg.away_form.games_played, t)

\* One team's form is >= 70% while the other's is <= 30%.
OneSidedForm ==
    \/ FormAtLeast(arg.home_form, 70) /\ FormAtMost(arg.away_form, 30)
    \/ FormAtLeast(arg.away_form, 70) /\ FormAtMost(arg.home_form, 30)

\* C19: the score is +2 for a mean over-2.5 rate >= 70% (else +1 for
\* >= 60%), +1 for a mean BTTS rate >= 60%, +1 for a one-sided form; it is
\* within 0..4 and an alert is sent only when it is >= 2.
C19_ScoreIsSumOfWeights ==
    fn = "campeonatos" =>
        /\ out.score \in 0..4
        /\ out.alert => out.score >= 2
        /\ out.scored =>
              out.score = (IF MeanOverAtLeast(70) THEN 2
                           ELSE IF MeanOverAtLeast(60) THEN 1 ELSE 0)
                          + (IF MeanBttsAtLeast(60) THEN 1 ELSE 0)
                          + (IF OneSidedForm THEN 1 ELSE 0)

\* Over-2.5 rates of 60% and 80% (mean exactly 70%), BTTS rates of 20%, no
\* one-sided form: the score is 2 and the alert went out.
C19_Witness ==
    /\ fn = "campeonatos"
    /\ arg.home_form.games_played = FORM_WINDOW /\ arg.away_form.games_played = FORM_WINDOW
    /\ arg.home_form.over_25 = 3 /\ arg.away_form.over_25 = 4
    /\ ~MeanBttsAtLeast(60) /\ ~OneSidedForm
    /\ out.score = 2
    /\ out.alert

\* C20: whatever fixtures of a run are malformed, every well-formed fixture
\* of the run is processed and the run ends with its summary message.
C20_MalformedFixtureIsSkipped ==
    fn = "execute" =>
        /\ out.summary
        /\ out.processed = {i \in 1..Len(arg.matches) : arg.matches[i] = "ok"}

\* The tasks that are inside execute() of a detector.
InFlight(det) == {t \in Tasks : rpc[t] # "idle" /\ rdet[t] = det}

\* C21: at any time at most one execution of a detector's execute() is in
\* flight, scheduled jobs and /trigger requests counted together.
C21_OneExecutionPerDetector ==
    \A det \in Detectors : Cardinality(InFlight(det)) <= 1

\* C22: a step that records a notification in one detector's ledger leaves
\* every other detector's answer to "already notified?" as it was, for every
\* date and fixture.
C22_LedgersAreIndependent ==
    [][\A d \in Detectors :
          notified'[d] # notified[d] =>
              \A k \in AlertKeys :
                  k[1] # d =>
                      (notification_key(k[1], k[2], k[3]) \in notified'[k[1]])
                        = AlreadyNotified(k[1], k[2], k[3])]_vars

\* Two detectors have each alerted once on fixture f1 of day 1, and each has
\* it in its own ledger.
C22_Witness ==
    /\ sent[<<"elite", 1, "f1">>] = 1
    /\ sent[<<"regressao", 1, "f1">>] = 1
    /\ AlreadyNotified("elite", 1, "f1")
    /\ AlreadyNotified("regressao", 1, "f1")
    /\ ~AlreadyNotified("campeonatos", 1, "f1")

\* The same letter in the other case.
SwapCase(c) ==
    CASE c = "a" -> "A" [] c = "A" -> "a"
      [] c = "a^" -> "A^" [] c = "A^" -> "a^"
      [] OTHER -> c

\* The same letter with the accent added or taken away.
SwapAccent(c) ==
    CASE c = "a" -> "a^" [] c = "a^" -> "a"
      [] c = "A" -> "A^" [] c = "A^" -> "A"
      [] OTHER -> c

\* name with c put in after its first i characters.
InsertAt(name, i, c) == SubSeq(name, 1, i) \o <<c>> \o SubSeq(name, i + 1, Len(name))

\* The names one change away from name: one letter in the other case, one
\* accent more or less, one punctuation character more, or one whitespace
\* character more beside a whitespace character.
Variants(name) ==
    {[name EXCEPT ![i] = SwapCase(name[i])] : i \in 1..Len(name)}
    \cup {[name EXCEPT ![i] = SwapAccent(name[i])] : i \in 1..Len(name)}
    \cup {InsertAt(name, i, ".") : i \in 0..Len(name)}
    \cup {InsertAt(name, i, w) : i \in {j \in 1..Len(name) : name[j] \in Whitespace},
                                 w \in Whitespace}
    \cup {InsertAt(name, i - 1, w) : i \in {j \in 1..Len(name) : name[j] \in Whitespace},
                                     w \in Whitespace}

ConfigError(c) ==
    \/ c.API_DAILY_LIMIT <= 0
    \/ c.thresholds[1] >= c.thresholds[2]
    \/ ~(c.ACTIVE_HOURS_START \in 0..23 /\ c.ACTIVE_HOURS_END \in 0..23)
    \/ c.ELITE_GOALS_THRESHOLD <= 0
    \/ c.valid_leagues = 0

\* C24: under a configuration error (non-positive quota limit, warning
\* threshold at or above the block threshold, active hours outside 0..23,
\* non-positive elite threshold, no valid league for the rolling-form
\* detector) the process does not get past startup and no detector run starts.
C24_ConfigErrorStopsStartup ==
    ConfigError(arg) => fn # "running" /\ out.started = {}

\* C25: when attempt k of a read is followed by attempt k+1, the wait
\* between them is (k+1)*10 seconds after HTTP 429 and (k+1)*2 seconds after
\* any other failure; a 429 uses up one of the three attempts like any other
\* failure (call_http = out.attempt + 1: the noted attempt is the latest of the
\* read in progress or just ended).
C25_BackoffBetweenAttempts ==
    fn = "_make_request" =>
        /\ (out.outcome = "http_429" /\ out.attempt + 1 < MaxAttempts)
              => out.backoff = (out.attempt + 1) * 10
        /\ (out.outcome \notin {"ok", "http_429"} /\ out.attempt + 1 < MaxAttempts)
              => out.backoff = (out.attempt + 1) * 2
        /\ call_http <= MaxAttempts
        /\ (out.outcome = "http_429" /\ call_http = out.attempt + 1)
              => IF out.attempt + 1 < MaxAttempts
                   THEN pc = "loop" /\ attempt = out.attempt + 1
                   ELSE pc = "idle" /\ last_kind = "exhausted"

\* The second attempt of a read was answered 429; 20 seconds were slept and
\* the third attempt is to come.
C25_Witness ==
    /\ fn = "_make_request"
    /\ out.outcome = "http_429"
    /\ out.attempt = 1
    /\ out.backoff = 20
    /\ pc = "loop"
    /\ call_http = 2

\* C26: every HTTP attempt made after a read has succeeded is preceded by
\* the pacing delay, first tries and retries alike; the first attempt since
\* construction is not.
C26_PacingAfterFirstSuccess ==
    fn = "_make_request" =>
        /\ out.after_success => out.pacing
        /\ out.first => ~out.pacing

\* A retry of a read made after an earlier read had succeeded was paced.
C26_Witness ==
    /\ fn = "_make_request"
    /\ out.after_success
    /\ out.attempt = 1
    /\ out.pacing
    /\ ~out.first

\* C27: once a successful response has reported an account remaining value
\* of 10 or less, no later read gets past the admission check into the retry
\* loop (a successful response ends its read, so a read inside the loop while
\* the latest report is that low was admitted after it).
C27_AccountRemainingBrake ==
    (out.account_remaining # Absent /\ out.account_remaining <= 10)
        => pc # "loop"

\* What get_league_real_stats returned when the network served it the
\* given fixtures (lines 346-390).
LeagueServed(fixtures) ==
    IF fixtures = Empty \/ Len(fixtures) < MIN_LEAGUE_FIXTURES
      THEN [kind |-> "None", fixtures |-> Empty, total_games |-> 0]
      ELSE [kind |-> "aggregate", fixtures |-> Empty,
            total_games |-> LeagueAggregate(fixtures).total_games]

\* C28: a facade read answered from the cache makes no HTTP request and
\* returns what the network-served call that filled the entry returned; for
\* the league statistics that is the same aggregate record.
C28_RepeatedReadSameValue ==
    (pc = "idle" /\ last_kind = "hit") =>
        /\ call_http = 0
        /\ request_count = pre_count
        /\ op \in {"get_fixtures_by_date", "get_team_recent_matches"}
              => last_value = pre_entry[1].data
        /\ op = "get_league_real_stats"
              => league_result = LeagueServed(pre_entry[1].data)

\* C29: when a read has failed all its attempts (non-2xx status, body that
\* does not parse, no answer), the cache entry of its key is what it was when
\* the read began, and it is not a valid entry: the next read of the key is
\* not served from the cache.
C29_FailuresNotCached ==
    (pc = "idle" /\ last_kind = "exhausted") =>
        /\ pre_entry = IF cur_key \in DOMAIN cache THEN <<cache[cur_key]>> ELSE << >>
        /\ ~CacheHit(cur_key, now)

\* Three attempts answered with an error status or an unparseable body, and
\* no entry for the key.
C29_Witness ==
    /\ pc = "idle"
    /\ last_kind = "exhausted"
    /\ call_http = MaxAttempts
    /\ request_count - pre_count = MaxAttempts
    /\ cur_key \notin DOMAIN cache

\* The matches of the list with status FT, by position.
FTMatches == {i \in 1..Len(arg) : arg[i].status = "FT"}

\* The team's own goals and its opponent's in a match.
TeamGoals(m) == IF m.at_home THEN m.goals[1] ELSE m.goals[2]
OpponentGoals(m) == IF m.at_home THEN m.goals[2] ELSE m.goals[1]

\* C30: a form summary counts the FT matches of the list and no others;
\* wins + draws + losses = games_played >= 1; over-2.5 and BTTS counts are at
\* most games_played; the form percentage is (3*wins + draws) /
\* (3*games_played) * 100 and lies in 0..100; a team without an FT match gets
\* no summary, its fixture is passed over, and nothing is divided by zero.
C30_FormSummary ==
    fn = "analyze_team_form" =>
        LET f == out.home_form
            st == f.stats
        IN  /\ ~f.zero_division
            /\ (FTMatches = {}) <=> (f.kind = "None")
            /\ out.skipped <=> (f.kind = "None")
            /\ f.kind = "summary" =>
                  /\ st.games_played = Cardinality(FTMatches)
                  /\ st.games_played >= 1
                  /\ st.wins = Cardinality({i \in FTMatches : TeamGoals(arg[i]) > OpponentGoals(arg[i])})
                  /\ st.draws = Cardinality({i \in FTMatches : TeamGoals(arg[i]) = OpponentGoals(arg[i])})
                  /\ st.wins + st.draws + st.losses = st.games_played
                  /\ st.over_25 <= st.games_played
                  /\ st.btts <= st.games_played
                  /\ f.form_percentage.num * 3 * st.games_played
                        = (3 * st.wins + st.draws) * 100 * f.form_percentage.den
                  /\ 0 <= f.form_percentage.num
                  /\ f.form_percentage.num <= 100 * f.form_percentage.den

\* A list with a win, a match not yet played and a match ended after extra
\* time: one game counted, form 100%.
C30_Witness ==
    /\ fn = "analyze_team_form"
    /\ Len(arg) = 3
    /\ Cardinality(FTMatches) = 1
    /\ \E i \in 1..3 : arg[i].status = "AET"
    /\ \E i \in 1..3 : arg[i].status = "NS"
    /\ out.home_form.kind = "summary"
    /\ out.home_form.stats.wins = 1
    /\ out.home_form.form_percentage.num = 100 * out.home_form.form_percentage.den
    /\ ~out.skipped

\* How often a fixture is analysed in the run.
TimesAnalysed(f) == Cardinality({i \in 1..Len(out) : out[i] = f})

\* The fixtures a list holds.
InList(l) == {l[i] : i \in 1..Len(l)}

\* C31: a fixture analysed in a regression run has status NS or TBD, kicks
\* off today in Lisbon, and is of a configured league or has a watchlist
\* team; no fixture is analysed twice; a fixture that both the per-league
\* fetch and the all-leagues fetch returned is analysed once when it meets
\* the conditions.
C31_AnalysedFixtures ==
    fn = "regressao_select" =>
        \A f \in Fixtures :
            /\ TimesAnalysed(f) <= 1
            /\ TimesAnalysed(f) = 1 =>
                  /\ arg.info[f].status \in {"NS", "TBD"}
                  /\ arg.info[f].today
                  /\ (arg.info[f].league \/ arg.info[f].watch)
                  /\ f \in InList(arg.league_matches) \cup InList(arg.day_all)
            /\ (/\ f \in InList(arg.league_matches) \cap InList(arg.day_all)
                /\ arg.info[f].status \in {"NS", "TBD"}
                /\ arg.info[f].today)
                  => TimesAnalysed(f) = 1

\* f1 is in the per-league fetch and, having a watchlist team, in the
\* watchlist list as well; it is analysed once.
C31_Witness ==
    /\ fn = "regressao_select"
    /\ arg.league_matches = <<"f1">>
    /\ arg.day_all = <<"f2", "f1">>
    /\ arg.info["f1"].watch
    /\ arg.info["f2"].status = "PST"
    /\ out = <<"f1">>

\* Every key of every ledger belongs to an alert that was delivered.
LedgerBacked ==
    \A det \in Detectors : \A key \in notified[det] :
        \E k \in AlertKeys :
            /\ k[1] = det
            /\ notification_key(det, k[2], k[3]) = key
            /\ sent[k] >= 1

\* C32: a key is in a detector's ledger only if a send for it returned
\* success; a send that returns failure (the task leaves "sending" and no
\* delivery is counted) leaves every ledger as it was.
C32_LedgerOnlyOnSuccess ==
    [][/\ LedgerBacked'
       /\ \A t \in Tasks :
             (rpc[t] = "sending" /\ rpc'[t] # "sending" /\ sent' = sent)
                 => notified' = notified]_vars

\* Two runs are over; the one delivery there has been, regressao's for f1,
\* is the one key in any ledger.
C32_Witness ==
    /\ runs = 2
    /\ \A t \in Tasks : rpc[t] = "idle"
    /\ sent[<<"regressao", 1, "f1">>] = 1
    /\ notified["regressao"] = {notification_key("regressao", 1, "f1")}
    /\ notified["elite"] = {}
    /\ notified["campeonatos"] = {}
    /\ \A k \in AlertKeys : k # <<"regressao", 1, "f1">> => sent[k] = 0

\* C33: after the last attempt of a read has failed, nothing more is slept
\* before the empty result is returned, whether the attempt was answered 429
\* or failed otherwise.
C33_NoBackoffAfterLastAttempt ==
    (fn = "_make_request" /\ out.outcome # "ok" /\ out.attempt + 1 = MaxAttempts)
        => out.backoff = 0

\* C34: the request counter never exceeds the configured request limit,
\* whatever mix of successes, 429 answers and retries the reads meet.
C34_CounterWithinLimit ==
    request_count <= MAX_API_REQUESTS

\* The calls of wait_if_needed that returned at an instant t with
\* w <= t < w + time_window.
AllowedIn(w) ==
    {i \in 1..Len(out.allowed) : w <= out.allowed[i] /\ out.allowed[i] < w + time_window}

\* C35: in no window of time_window seconds do more than max_calls calls of
\* wait_if_needed return.
C35_WindowHoldsMaxCalls ==
    \A w \in 0..(MaxClock + time_window) : Cardinality(AllowedIn(w)) <= max_calls

\* C36: self.calls never holds more than max_calls timestamps.
C36_DequeHoldsMaxCalls ==
    Len(out.calls) <= max_calls

\* The outcome of the latest bot.send_message of the call.
LastTried == out.tried[Len(out.tried)]

\* C37: send_message makes at most max_retries send attempts; it returns
\* True only after an attempt that succeeded, or in dry-run; BadRequest and
\* Forbidden end the call at once with False; every RetryAfter and every
\* other Telegram error before them used up one attempt.
C37_SendMessageRetries ==
    /\ Len(out.tried) <= arg.max_retries
    /\ out.result = "True" =>
          (arg.dry_run \/ (out.tried # << >> /\ LastTried = "ok"))
    /\ \A i \in 1..Len(out.tried) :
          /\ (out.tried[i] \in {"BadRequest", "Forbidden"}) =>
                (i = Len(out.tried) /\ fn = "returned" /\ out.result = "False")
          /\ (out.tried[i] = "ok") =>
                (i = Len(out.tried) /\ fn = "returned" /\ out.result = "True")
    /\ Cardinality({i \in 1..Len(out.tried) : out.tried[i] \in {"RetryAfter", "TelegramError"}})
          = out.attempt
    /\ (fn = "loop") => Len(out.tried) < arg.max_retries
    /\ (fn = "returned" /\ out.result = "none") => FALSE

\* A RetryAfter and another Telegram error each used up an attempt, then
\* BadRequest ended the call with False on the third and last attempt.
C37_Witness ==
    /\ fn = "returned"
    /\ arg.max_retries = 3
    /\ out.tried = <<"RetryAfter", "TelegramError", "BadRequest">>
    /\ out.attempt = 2
    /\ out.result = "False"

\* The latest regression run began at an hour outside the active period.
InactiveRun ==
    /\ fn = "regressao_done"
    /\ (out.hour < REGRESSAO_ACTIVE_HOURS_START \/ out.hour > REGRESSAO_ACTIVE_HOURS_END)

\* C38: a regression run begun outside the active hours makes no provider
\* request and delivers no alert: the counter, the cache, the ledgers and
\* the deliveries are what they were when it began.
C38_InactiveHoursChangeNothing ==
    InactiveRun =>
        /\ request_count = out.count0
        /\ cache = out.cache0
        /\ notified = out.ledger0
        /\ sent = out.sent0
        /\ pc = "idle"
        /\ fn # "regressao_run"

\* After a run that read from the provider and alerted, a run at 7 h (one
\* hour before the period) has come and gone.
C38_Witness ==
    /\ InactiveRun
    /\ out.hour = REGRESSAO_ACTIVE_HOURS_START - 1
    /\ out.diagnostic
    /\ request_count > 0
    /\ notified["regressao"] # {}

\* start() has been left: shutdown() returned or raised.
StartExited == fn = "exited"

\* C39: the scheduler is started only after the connectivity test returned
\* True; start() is never left, whatever raised, without shutdown() having
\* run exactly once, and shutdown() runs only from the finally clause; the
\* scheduler is stopped only when it was running.
C39_StartAndShutdownOrder ==
    /\ (out.starts > 0 \/ out.running) => (out.tested = "ok" /\ ~out.early)
    /\ out.starts <= 1
    /\ out.shutdowns <= 1
    /\ StartExited => out.shutdowns = 1
    /\ out.shutdowns = 1 <=> fn \in {"api_close", "stop_server", "farewell", "exited"}
    /\ ~out.idle_stop
    /\ out.stops <= out.starts
    /\ out.tested \in {"failed", "raised"} => out.stops = 0

\* A failed connectivity test has gone through the except clause and
\* shutdown() to the end without touching the scheduler.
C39_Witness ==
    /\ StartExited
    /\ out.tested = "failed"
    /\ out.handled /\ out.admin = 1
    /\ out.shutdowns = 1
    /\ out.stops = 0

\* The main loop was interrupted with the scheduler running, and shutdown()
\* stopped it.
C39_WitnessInterrupted ==
    /\ StartExited
    /\ out.exc = "KeyboardInterrupt"
    /\ out.loops > 0
    /\ out.shutdowns = 1
    /\ out.stops = 1 /\ ~out.running

====
